---- MODULE Spec2Model ----
(***************************************************************************)
(* SuperRoutePro: the React front end (src/src/App.tsx, src/src/api.ts)    *)
(* and the backend operations it calls.                                    *)
(*                                                                         *)
(* Strings are sequences of one-character strings.  JavaScript numbers     *)
(* that take part in 32-bit bitwise arithmetic are pairs of 16-bit halves  *)
(* (records hi/lo, value hi * 65536 + lo), because the model checker's     *)
(* integers stop at 2^31 - 1.                                              *)
(***************************************************************************)
EXTENDS Integers, Sequences, FiniteSets, TLC

\* ------------------------------------------------------------------------
\* JavaScript string primitives used by the sources
\* ------------------------------------------------------------------------

\* null and NaN are the empty sequence; a value v that may be null or NaN
\* is the one-element sequence <<v>>, so both compare with everything.
Null == <<>>
NaN == <<>>
Some(v) == <<v>>

DigitChars == {"0", "1", "2", "3", "4", "5", "6", "7", "8", "9"}
LowerChars == {"a", "b", "c", "d", "e", "f", "g", "h", "i", "j", "k", "l", "m",
               "n", "o", "p", "q", "r", "s", "t", "u", "v", "w", "x", "y", "z"}
UpperChars == {"A", "B", "C", "D", "E", "F", "G", "H", "I", "J", "K", "L", "M",
               "N", "O", "P", "Q", "R", "S", "T", "U", "V", "W", "X", "Y", "Z"}
SpaceChars == {" "}

DigitVal(c) ==
  CASE c = "0" -> 0 [] c = "1" -> 1 [] c = "2" -> 2 [] c = "3" -> 3
    [] c = "4" -> 4 [] c = "5" -> 5 [] c = "6" -> 6 [] c = "7" -> 7
    [] c = "8" -> 8 [] c = "9" -> 9

DigitChar(d) ==
  CASE d = 0 -> "0" [] d = 1 -> "1" [] d = 2 -> "2" [] d = 3 -> "3"
    [] d = 4 -> "4" [] d = 5 -> "5" [] d = 6 -> "6" [] d = 7 -> "7"
    [] d = 8 -> "8" [] d = 9 -> "9"

\* String.prototype.trimStart / trimEnd / trim
RECURSIVE TrimStart(_)
TrimStart(s) ==
  IF s # <<>> /\ Head(s) \in SpaceChars THEN TrimStart(Tail(s)) ELSE s

RECURSIVE TrimEnd(_)
TrimEnd(s) ==
  IF s # <<>> /\ s[Len(s)] \in SpaceChars
    THEN TrimEnd(SubSeq(s, 1, Len(s) - 1))
    ELSE s

Trim(s) == TrimEnd(TrimStart(s))

\* String.prototype.split(sep) for a one-character separator: the pieces
\* between separators, empty pieces included.
RECURSIVE SplitOn(_, _, _, _)
SplitOn(s, sep, cur, acc) ==
  IF s = <<>> THEN Append(acc, cur)
  ELSE IF Head(s) = sep THEN SplitOn(Tail(s), sep, <<>>, Append(acc, cur))
  ELSE SplitOn(Tail(s), sep, Append(cur, Head(s)), acc)

Split(s, sep) == SplitOn(s, sep, <<>>, <<>>)

\* The longest prefix of s made of decimal digits.
RECURSIVE DigitPrefix(_)
DigitPrefix(s) ==
  IF s # <<>> /\ Head(s) \in DigitChars
    THEN <<Head(s)>> \o DigitPrefix(Tail(s))
    ELSE <<>>

RECURSIVE DigitsValue(_, _)
DigitsValue(s, acc) ==
  IF s = <<>> THEN acc ELSE DigitsValue(Tail(s), acc * 10 + DigitVal(Head(s)))

\* Number.parseInt(s, 10): leading white space skipped, an optional sign,
\* then the longest run of digits; NaN when there is no digit.
ParseInt(s) ==
  LET t == TrimStart(s)
      neg == t # <<>> /\ Head(t) = "-"
      body == IF t # <<>> /\ Head(t) \in {"-", "+"} THEN Tail(t) ELSE t
      ds == DigitPrefix(body)
  IN  IF ds = <<>> THEN NaN
      ELSE IF neg THEN Some(0 - DigitsValue(ds, 0))
      ELSE Some(DigitsValue(ds, 0))

\* String(n) / template interpolation of a non-negative integer.
RECURSIVE NatToStr(_)
NatToStr(n) ==
  IF n < 10 THEN <<DigitChar(n)>>
  ELSE NatToStr(n \div 10) \o <<DigitChar(n % 10)>>

\* ------------------------------------------------------------------------
\* 32-bit bitwise arithmetic on JavaScript numbers
\* ------------------------------------------------------------------------

Half == 65536

RECURSIVE Pow2(_)
Pow2(n) == IF n = 0 THEN 1 ELSE 2 * Pow2(n - 1)

\* The number n (|n| < 2^31) as a pair of halves.
Num(n) == [hi |-> n \div Half, lo |-> n % Half]

\* ToUint32 and ToInt32 of ECMAScript.
ToUint32(x) == [hi |-> x.hi % Half, lo |-> x.lo]
ToInt32(x) ==
  LET h == x.hi % Half
  IN  [hi |-> IF h >= 32768 THEN h - Half ELSE h, lo |-> x.lo]

\* x + y
NumAdd(x, y) ==
  LET l == x.lo + y.lo
  IN  [hi |-> x.hi + y.hi + (l \div Half), lo |-> l % Half]

\* x << n: the low 32 bits of x shifted left, read as a signed number.
Shl(x, n) ==
  LET k == n % 32
      u == ToUint32(x)
      w == IF k >= 16
             THEN [hi |-> (u.lo * Pow2(k - 16)) % Half, lo |-> 0]
             ELSE [hi |-> (((u.hi * Pow2(k)) % Half)
                            + ((u.lo * Pow2(k)) \div Half)) % Half,
                   lo |-> (u.lo * Pow2(k)) % Half]
  IN  ToInt32(w)

\* x >>> n: the low 32 bits of x shifted right, zero filled, unsigned.
UShr(x, n) ==
  LET k == n % 32
      u == ToUint32(x)
  IN  IF k >= 16
        THEN [hi |-> 0, lo |-> u.hi \div Pow2(k - 16)]
        ELSE [hi |-> u.hi \div Pow2(k),
              lo |-> ((u.hi % Pow2(k)) * Pow2(16 - k)) + (u.lo \div Pow2(k))]

\* bitwise AND of two 16-bit halves
RECURSIVE And16(_, _, _)
And16(a, b, bits) ==
  IF bits = 0 THEN 0
  ELSE (a % 2) * (b % 2) + 2 * And16(a \div 2, b \div 2, bits - 1)

\* x & y: a signed 32-bit number.
BitAnd(x, y) ==
  LET a == ToUint32(x)
      b == ToUint32(y)
  IN  ToInt32([hi |-> And16(a.hi, b.hi, 16), lo |-> And16(a.lo, b.lo, 16)])

NumEq(x, y) == x.hi = y.hi /\ x.lo = y.lo

\* ------------------------------------------------------------------------
\* IPv4 helpers of App.tsx
\* ------------------------------------------------------------------------

\* parseIpv4: four dot-separated parts, each parseInt'ed, each in 0..255.
parseIpv4(value) ==
  LET parts == Split(Trim(value), ".")
  IN  IF Len(parts) # 4 THEN Null
      ELSE LET parsed == [i \in 1..4 |-> ParseInt(parts[i])]
           IN  IF \E i \in 1..4 :
                    \/ parsed[i] = NaN
                    \/ parsed[i] # NaN /\ (parsed[i][1] < 0 \/ parsed[i][1] > 255)
                 THEN Null
                 ELSE [i \in 1..4 |-> parsed[i][1]]

\* ipv4ToInt: the four octets packed into an unsigned 32-bit number.
ipv4ToInt(octets) ==
  ToUint32(
    NumAdd(NumAdd(NumAdd(UShr(Shl(Num(octets[1]), 24), 0),
                         UShr(Shl(Num(octets[2]), 16), 0)),
                  UShr(Shl(Num(octets[3]), 8), 0)),
           UShr(Num(octets[4]), 0)))

\* The loop of maskToPrefix, from bit down to 0.
RECURSIVE MaskLoop(_, _, _, _)
MaskLoop(maskInt, bit, prefix, zeroSeen) ==
  IF bit < 0 THEN Some(prefix)
  ELSE LET isOne == NumEq(BitAnd(UShr(maskInt, bit), Num(1)), Num(1))
       IN  IF isOne
             THEN IF zeroSeen THEN Null
                  ELSE MaskLoop(maskInt, bit - 1, prefix + 1, zeroSeen)
             ELSE MaskLoop(maskInt, bit - 1, prefix, TRUE)

\* maskToPrefix with the zero-seen check left out: counts every one bit.
RECURSIVE MaskLoopNoCheck(_, _, _, _)
MaskLoopNoCheck(maskInt, bit, prefix, zeroSeen) ==
  IF bit < 0 THEN Some(prefix)
  ELSE LET isOne == NumEq(BitAnd(UShr(maskInt, bit), Num(1)), Num(1))
       IN  MaskLoopNoCheck(maskInt, bit - 1,
                           IF isOne THEN prefix + 1 ELSE prefix, zeroSeen)

maskToPrefix_NoZeroSeen(mask) ==
  LET octets == parseIpv4(mask)
  IN  IF octets = Null THEN Null
      ELSE MaskLoopNoCheck(ipv4ToInt(octets), 31, 0, FALSE)

maskToPrefix(mask) ==
  LET octets == parseIpv4(mask)
  IN  IF octets = Null THEN Null
      ELSE MaskLoop(ipv4ToInt(octets), 31, 0, FALSE)

\* 0xffffffff
AllOnes == [hi |-> Half - 1, lo |-> Half - 1]

\* a number in 0 .. 2^31 - 1 as an integer
NumToInt(x) == x.hi * Half + x.lo

\* prefixToMaskInt without the final >>> 0: the signed result of <<
prefixToMaskInt_Signed(prefix) ==
  IF prefix <= 0 THEN Num(0)
  ELSE IF prefix >= 32 THEN UShr(AllOnes, 0)
  ELSE Shl(AllOnes, 32 - prefix)

\* prefixToMaskInt
prefixToMaskInt(prefix) ==
  IF prefix <= 0 THEN Num(0)
  ELSE IF prefix >= 32 THEN UShr(AllOnes, 0)
  ELSE UShr(Shl(AllOnes, 32 - prefix), 0)

\* the four numbers intToIpv4 writes: (value >>> 24) & 255, ...,
\* value & 255
IntOctets(value) ==
  << NumToInt(BitAnd(UShr(value, 24), Num(255))),
     NumToInt(BitAnd(UShr(value, 16), Num(255))),
     NumToInt(BitAnd(UShr(value, 8), Num(255))),
     NumToInt(BitAnd(value, Num(255))) >>

\* intToIpv4 with the octets written lowest first
intToIpv4_Reversed(value) ==
  LET o == IntOctets(value) IN
  NatToStr(o[4]) \o <<".">> \o NatToStr(o[3]) \o <<".">>
    \o NatToStr(o[2]) \o <<".">> \o NatToStr(o[1])

\* intToIpv4
intToIpv4(value) ==
  LET o == IntOctets(value) IN
  NatToStr(o[1]) \o <<".">> \o NatToStr(o[2]) \o <<".">>
    \o NatToStr(o[3]) \o <<".">> \o NatToStr(o[4])

\* ------------------------------------------------------------------------
\* Inputs of the netmask functions
\* ------------------------------------------------------------------------

\* Octet values: every octet of a contiguous mask, and octets with holes.
MaskOctets == {0, 128, 192, 224, 240, 248, 252, 254, 255, 1, 127}

Dotted(o) ==
  NatToStr(o[1]) \o <<".">> \o NatToStr(o[2]) \o <<".">>
    \o NatToStr(o[3]) \o <<".">> \o NatToStr(o[4])

\* Strings that are no dotted quad of octets.
MalformedMasks ==
  { <<>>,
    <<"2", "5", "5", ".", "2", "5", "5", ".", "0">>,
    <<"2", "5", "5", ".", "2", "5", "6", ".", "0", ".", "0">>,
    <<"2", "5", "5", ".", "x", ".", "0", ".", "0">>,
    <<"2", "5", "5", ".", "-", "1", ".", "0", ".", "0">> }

\* prefixToMaskInt is tried on the prefixes from -PrefixMargin to
\* 32 + PrefixMargin
PrefixMargin == 3
PrefixArgs == (0 - PrefixMargin)..(32 + PrefixMargin)

\* ------------------------------------------------------------------------
\* State
\* ------------------------------------------------------------------------

VARIABLES
  \* netmask functions
  maskArg,      \* the string handed to maskToPrefix
  maskOctets,   \* the octets maskArg was written from (<<>>: malformed)
  maskCalled,   \* maskToPrefix has been called on maskArg
  maskRet,      \* what maskToPrefix returned: Null or Some(prefix)
  prefixArg,    \* the number handed to prefixToMaskInt
  prefixStage,  \* "none", "mask" (prefixToMaskInt has returned), "dotted"
                \* (intToIpv4 has written the result into maskArg)
  prefixMask,   \* what prefixToMaskInt returned
  \* React state and refs of App (App.tsx 273-353)
  statusMsg,
  nicPlanSize,               \* targets buildIpScanPlan(selectedNic, routes)
                             \* yields now; 0: no NIC selected / no plan
  ipScanRunning,
  ipScanStopPending,
  ipScanStopRequestedRef,
  ipScanResults,
  ipScanProgressPercent,
  ipScanProgressText,
  renderedIpScanRunning,     \* ipScanRunning as captured by the callbacks
  renderedIpScanStopPending, \* of the last render (useCallback deps)
  scanCalls,                 \* runIpScan invocations awaiting fpingScan
  monitorRef,
  isOnline,
  currentLatency,
  inetPending,               \* checkInternet calls in flight
  latencyPending,            \* monitor pingHost calls in flight
  pingTarget,
  pingMode,
  pingRunning,
  pingLoopRef,               \* the interval of the continuous ping is set
  pingBusyRef,
  pingSeqRef,
  pingLogAfterStop,          \* what the continuous ping logged after its
                             \* last Stopped marker: none while there is no
                             \* marker since the last start, else marker,
                             \* result or error for the last line
  pingCalls,                 \* probe requests of runOnce in flight
  cmdCalls,                  \* run_network_command requests in flight
  cmdDone,                   \* the last request the backend has answered
  loadPending,               \* loadData calls in flight
  formDest,                  \* the Destination field of the route form
  formGw,                    \* the Gateway field of the route form
  selectedNicGateway,        \* selectedNic.gateway, "" with no interface
  confirmOpen,               \* the confirmation dialog is shown
  confirmTitle,              \* its title
  confirmActionRef,          \* the action Confirm will run, or null
  routeCalls,                \* route requests to the backend in flight
  routeDone,                 \* the last route request the backend answered
  defaultRoute,              \* gateway of the system's 0.0.0.0/0 route
  diagHost,                  \* the host field of the diagnostics panel
  diagDnsServer,             \* its DNS server field
  diagPort,                  \* its port field
  fpTargets,                 \* the targets of a batch probe
  fpUp,                      \* the positions of the targets that answer
  fpResult,                  \* the result of the batch probe, or null
  planNic,                   \* the interface buildIpScanPlan is called on
  planRoutes,                \* the routes it is called on
  planPc,                    \* where the call is: idle, loop or done
  planLocals,                \* its local variables at the loop
  planOffset,                \* offset of the loop
  planTargets,               \* targets of the loop
  planRet,                   \* what it returned
  pingLogLinesRef,           \* the lines of the ping log
  commandLogLinesRef,        \* the lines of the command log
  pingLogHistory,            \* the lines appended since the last clear
  commandLogHistory,
  logCalls,                  \* the appends made so far
  rafQueue,                  \* the callbacks of the next animation frame
  pingRenderRafRef,          \* a frame is pending for the ping log
  commandRenderRafRef,       \* a frame is pending for the command log
  pingLogVersion,
  commandLogVersion,
  pingOutputText,            \* the lines of the ping log last painted
  commandOutputText,
  pingDirty,                 \* the ping log changed after its last paint
  commandDirty,
  \* history of the current scan, for the properties
  dispatchLog,               \* the batches handed to fpingScan, in order
  batchLog,                  \* the host lists fpingScan returned, in order
  lastScan                   \* how the last finished runIpScan ended

prefixVars == <<prefixArg, prefixStage, prefixMask>>

maskVars == <<maskArg, maskOctets, maskCalled, maskRet, prefixVars>>

fpingVars == <<fpTargets, fpUp, fpResult>>

\* the arguments and results of the functions checked on their own
planVars ==
  <<planNic, planRoutes, planPc, planLocals, planOffset, planTargets,
    planRet>>

pureVars == <<maskVars, fpingVars, planVars>>

scanVars ==
  <<nicPlanSize, ipScanRunning,
    ipScanStopPending, ipScanStopRequestedRef, ipScanResults,
    ipScanProgressPercent, ipScanProgressText, renderedIpScanRunning,
    renderedIpScanStopPending, scanCalls, dispatchLog, batchLog, lastScan>>

monitorVars ==
  <<monitorRef, isOnline, currentLatency, inetPending, latencyPending>>

pingVars ==
  <<pingTarget, pingMode, pingRunning, pingLoopRef, pingBusyRef, pingSeqRef,
    pingLogAfterStop,
    pingCalls>>

cmdVars == <<cmdCalls, cmdDone, loadPending>>

confirmVars == <<confirmOpen, confirmTitle, confirmActionRef>>

routeVars ==
  <<formDest, formGw, selectedNicGateway, confirmVars, routeCalls, routeDone,
    defaultRoute>>

diagVars == <<diagHost, diagDnsServer, diagPort>>

rafVars ==
  <<rafQueue, pingRenderRafRef, commandRenderRafRef, pingLogVersion,
    commandLogVersion, pingOutputText, commandOutputText, pingDirty,
    commandDirty>>

logVars ==
  <<pingLogLinesRef, commandLogLinesRef, pingLogHistory, commandLogHistory,
    logCalls, rafVars>>

vars ==
  <<pureVars, statusMsg, scanVars, monitorVars, pingVars, cmdVars, routeVars,
    diagVars, logVars>>

\* ------------------------------------------------------------------------
\* Netmask functions as a state machine
\* ------------------------------------------------------------------------

MaskIdle ==
  /\ maskArg = <<>>
  /\ maskOctets = <<>>
  /\ maskCalled = FALSE
  /\ maskRet = Null

MaskInputs ==
  /\ \/ \E o \in [1..4 -> MaskOctets] :
          maskOctets = o /\ maskArg = Dotted(o)
     \/ \E m \in MalformedMasks : maskOctets = <<>> /\ maskArg = m
  /\ maskCalled = FALSE
  /\ maskRet = Null

CallMaskToPrefix ==
  /\ ~maskCalled
  /\ maskCalled' = TRUE
  /\ maskRet' = maskToPrefix(maskArg)
  /\ UNCHANGED <<maskArg, maskOctets, prefixVars, statusMsg, scanVars,
                 monitorVars, pingVars, cmdVars, routeVars, diagVars,
                 fpingVars, logVars, planVars>>

PrefixIdle ==
  /\ prefixArg = 0
  /\ prefixStage = "none"
  /\ prefixMask = Num(0)

PrefixInputs ==
  /\ prefixArg \in PrefixArgs
  /\ prefixStage = "none"
  /\ prefixMask = Num(0)

\* prefixToMaskInt is called on prefixArg
CallPrefixToMaskInt ==
  /\ prefixStage = "none"
  /\ prefixStage' = "mask"
  /\ prefixMask' = prefixToMaskInt(prefixArg)
  /\ UNCHANGED <<prefixArg, maskArg, maskOctets, maskCalled, maskRet,
                 statusMsg, scanVars, monitorVars, pingVars, cmdVars,
                 routeVars, diagVars, fpingVars, logVars,
                 planVars>>

\* intToIpv4 writes the mask as the string maskToPrefix is called on next
CallIntToIpv4 ==
  /\ prefixStage = "mask"
  /\ prefixStage' = "dotted"
  /\ maskArg' = intToIpv4(prefixMask)
  /\ maskOctets' = IntOctets(prefixMask)
  /\ maskCalled' = FALSE
  /\ maskRet' = Null
  /\ UNCHANGED <<prefixArg, prefixMask, statusMsg, scanVars, monitorVars,
                 pingVars, cmdVars, routeVars, diagVars, fpingVars,
                 logVars, planVars>>

\* ------------------------------------------------------------------------
\* IP scan (App.tsx 661-761)
\* ------------------------------------------------------------------------

IP_SCAN_BATCH_SIZE == 24

\* Bounds of the model
MaxTargets == 49        \* most targets of a plan
MaxScanCalls == 2       \* most runIpScan invocations alive at once
MaxPending == 1         \* most monitor requests in flight, per monitor
MaxPingCalls == 2       \* most probes of the continuous ping in flight
MaxPingSeq == 1         \* most rounds counted by pingSeqRef

Min(a, b) == IF a < b THEN a ELSE b

Msg(kind) == [kind |-> kind, a |-> 0, b |-> 0]
Msg2(kind, a, b) == [kind |-> kind, a |-> a, b |-> b]
Text(kind, a, b, c) == [kind |-> kind, a |-> a, b |-> b, c |-> c]

\* Array.prototype.slice(from, to)
Slice(s, from, to) == SubSeq(s, from + 1, Min(to, Len(s)))

\* Plans differ here in their number of targets only: target i is host i.
PlanSizes == {0, IP_SCAN_BATCH_SIZE, MaxTargets}

PlanTargets(n) == [i \in 1..n |-> i]

\* resolveIpScanPlan: null without a plan or without targets.
resolveIpScanPlan == IF nicPlanSize = 0 THEN Null ELSE Some(nicPlanSize)

\* fping_scan of the backend: one entry per target, in target order;
\* which hosts answer is the network's choice.
ReplyPatterns == {"all", "none"}

HostUp(pattern, i) ==
  CASE pattern = "all" -> TRUE
    [] pattern = "none" -> FALSE

\* the quotient num / den of two integers as a floating-point number; 0 / 0
\* is NaN
Ratio(num, den) ==
  IF den = 0 THEN NaN ELSE Some([num |-> num, den |-> den])

\* the loss without the guard of an empty round
LossPercent_NoGuard(sent, received) == Ratio(100 * (sent - received), sent)

\* lossPercent = 100 * (sent - received) / sent, and 0 when sent = 0
LossPercent(sent, received) ==
  IF sent = 0 THEN Ratio(0, 1) ELSE Ratio(100 * (sent - received), sent)

\* the result of a probe round in which the targets at the positions of up
\* answer
fping_scan(targets, up) ==
  LET hosts == [i \in 1..Len(targets) |->
                  [target |-> targets[i], success |-> i \in up]]
      received == Cardinality({i \in 1..Len(targets) : hosts[i].success})
  IN  [sent |-> Len(targets),
       received |-> received,
       loss_percent |-> LossPercent(Len(targets), received),
       hosts |-> hosts]

FpingScanResult(targets, pattern) ==
  fping_scan(targets, {i \in 1..Len(targets) : HostUp(pattern, i)})

\* a batch probe on its own: every target list up to MaxFpingTargets with
\* every set of answering hosts
MaxFpingTargets == 6

FpingIdle ==
  /\ fpTargets = <<>>
  /\ fpUp = {}
  /\ fpResult = Null

FpingInputs ==
  /\ \E n \in 0..MaxFpingTargets :
       /\ fpTargets = PlanTargets(n)
       /\ fpUp \in SUBSET (1..n)
  /\ fpResult = Null

CallFpingScan ==
  /\ fpResult = Null
  /\ fpResult' = Some(fping_scan(fpTargets, fpUp))
  /\ UNCHANGED <<fpTargets, fpUp, maskVars, statusMsg, scanVars,
                 monitorVars, pingVars, cmdVars, routeVars, diagVars,
                 logVars, planVars>>

\* Math.round((processed / totalTargets) * 100)
ProgressPercent(processed, total) == (200 * processed + total) \div (2 * total)

\* line 689 with the slice one element too long
BatchTargets_Overlap(targets, offset) ==
  Slice(targets, offset, offset + IP_SCAN_BATCH_SIZE + 1)

\* line 689
BatchTargets(targets, offset) ==
  Slice(targets, offset, offset + IP_SCAN_BATCH_SIZE)

\* lines 684-687 without the stop check
ScanLoopContinues_NoStop(offset, total, stop) == offset < total

\* lines 684-687: the loop condition and the stop check at the loop head
ScanLoopContinues(offset, total, stop) == offset < total /\ ~stop

\* line 672 left out: the flag keeps its value
StopFlagAtEntry_Kept(flag) == flag

\* line 672: ipScanStopRequestedRef.current = false
StopFlagAtEntry(flag) == FALSE

\* line 693 assigning instead of adding
AddReachable_Assign(reachable, received) == received

\* line 693: reachable += result.received
AddReachable(reachable, received) == reachable + received

\* lines 669 and 739 without the check
IpScanBusy_Never == FALSE

\* lines 669 and 739: if (ipScanRunning) return, read from the closure
IpScanBusy == renderedIpScanRunning

NoScan ==
  [outcome |-> "none", processed |-> 0, total |-> 0, reachable |-> 0,
   stopAtEntry |-> FALSE, stopAtExit |-> FALSE]

\* a stop request alone makes the scan a stopped one
StoppedEarly_OnRequest(stop, processed, total) == stop

\* line 703: stoppedEarly
StoppedEarly(stop, processed, total) == stop /\ processed < total

\* lines 703-717: the statements after the loop and the finally block
ScanExit(call, stop) ==
  LET total == Len(call.targets)
      stoppedEarly == StoppedEarly(stop, call.processed, total)
  IN  /\ IF stoppedEarly
           THEN /\ statusMsg' = Msg2("scanStopped", call.processed, total)
                /\ ipScanProgressText' =
                     Text("stopped", call.processed, total, call.reachable)
           ELSE /\ statusMsg' = Msg2("scanDone", call.reachable, total)
                /\ ipScanProgressText' =
                     Text("done", total, total, call.reachable)
      /\ ipScanRunning' = FALSE
      /\ ipScanStopPending' = FALSE
      /\ ipScanStopRequestedRef' = FALSE
      /\ lastScan' = [outcome |-> IF stoppedEarly THEN "stopped" ELSE "done",
                      processed |-> call.processed,
                      total |-> total,
                      reachable |-> call.reachable,
                      stopAtEntry |-> call.stopAtEntry,
                      stopAtExit |-> stop]

\* the gateway of the interface whose scan plan has n targets: the
\* interface without a usable plan is the one without a gateway
NicGateway(n) == IF n = 0 THEN "" ELSE "192.168.1.1"

\* lines 419-422, and loadData: the selection or the routes change, and with
\* them the plan resolveIpScanPlan builds; the gateway of the interface is
\* copied into the route form.
handleSelectNic ==
  /\ \E n \in PlanSizes :
       /\ n # nicPlanSize
       /\ nicPlanSize' = n
       /\ selectedNicGateway' = NicGateway(n)
       /\ formGw' = NicGateway(n)
  /\ UNCHANGED <<pureVars, logVars, diagVars, formDest, confirmVars,
                 routeCalls, routeDone,
                 defaultRoute, cmdVars,
                 statusMsg, ipScanRunning, ipScanStopPending, ipScanStopRequestedRef,
                 ipScanResults, ipScanProgressPercent, ipScanProgressText,
                 renderedIpScanRunning, renderedIpScanStopPending, scanCalls,
                 dispatchLog, batchLog, lastScan, monitorVars, pingVars>>

\* lines 721-736
handleOpenIpScanModal ==
  /\ IF resolveIpScanPlan = Null
       THEN /\ statusMsg' = Msg("selectNicFirst")
            /\ UNCHANGED <<ipScanResults, ipScanProgressPercent,
                           ipScanProgressText>>
       ELSE /\ ipScanResults' = <<>>
            /\ ipScanProgressPercent' = 0
            /\ ipScanProgressText' = Text("ready", 0, nicPlanSize, 0)
            /\ UNCHANGED statusMsg
  /\ UNCHANGED <<pureVars, logVars, diagVars, routeVars, cmdVars,
                 nicPlanSize, ipScanRunning, ipScanStopPending,
                 ipScanStopRequestedRef, renderedIpScanRunning,
                 renderedIpScanStopPending, scanCalls, dispatchLog, batchLog,
                 lastScan, monitorVars, pingVars>>

\* lines 668-719 up to the first await: the resets, then the loop head,
\* which hands the first batch to fpingScan.
runIpScan(targets) ==
  LET stop == StopFlagAtEntry(ipScanStopRequestedRef)
      total == Len(targets)
      call == [targets |-> targets, offset |-> 0, processed |-> 0,
               reachable |-> 0, collected |-> <<>>,
               batchTargets |-> BatchTargets(targets, 0),
               stopAtEntry |-> ipScanStopRequestedRef]
  IN  /\ ipScanResults' = <<>>
      /\ ipScanProgressPercent' = 0
      /\ batchLog' = <<>>
      /\ IF ScanLoopContinues(0, total, stop)
           THEN /\ scanCalls' = Append(scanCalls, call)
                /\ dispatchLog' = <<call.batchTargets>>
                /\ ipScanRunning' = TRUE
                /\ ipScanStopPending' = FALSE
                /\ ipScanStopRequestedRef' = stop
                /\ ipScanProgressText' = Text("starting", 0, total, 0)
                /\ statusMsg' = Msg2("scanStarted", 0, total)
                /\ lastScan' = NoScan
           ELSE /\ dispatchLog' = <<>>
                /\ UNCHANGED scanCalls
                /\ ScanExit(call, stop)

\* lines 738-748
handleStartIpScan ==
  \/ /\ IpScanBusy
     /\ UNCHANGED vars
  \/ /\ ~IpScanBusy
     /\ resolveIpScanPlan = Null
     /\ statusMsg' = Msg("selectNicFirst")
     /\ ipScanProgressText' = Text("cannotBuildPlan", 0, 0, 0)
     /\ UNCHANGED <<pureVars, logVars, diagVars, routeVars, cmdVars,
                    nicPlanSize, ipScanRunning, ipScanStopPending, ipScanStopRequestedRef,
                    ipScanResults, ipScanProgressPercent,
                    renderedIpScanRunning, renderedIpScanStopPending,
                    scanCalls, dispatchLog, batchLog, lastScan, monitorVars,
                    pingVars>>
  \/ /\ ~IpScanBusy
     /\ resolveIpScanPlan # Null
     /\ Len(scanCalls) < MaxScanCalls
     /\ runIpScan(PlanTargets(nicPlanSize))
     /\ renderedIpScanRunning' = ipScanRunning'
     /\ renderedIpScanStopPending' = ipScanStopPending'
     /\ UNCHANGED <<pureVars, logVars, diagVars, routeVars, cmdVars,
                    nicPlanSize, monitorVars,
                    pingVars>>

\* lines 750-756
handleForceStopIpScan ==
  \/ /\ ~renderedIpScanRunning \/ renderedIpScanStopPending
     /\ UNCHANGED vars
  \/ /\ renderedIpScanRunning
     /\ ~renderedIpScanStopPending
     /\ ipScanStopRequestedRef' = TRUE
     /\ ipScanStopPending' = TRUE
     /\ renderedIpScanStopPending' = TRUE
     /\ statusMsg' = Msg("forceStopRequested")
     /\ ipScanProgressText' = Text("stopping", 0, 0, 0)
     /\ UNCHANGED <<pureVars, logVars, diagVars, routeVars, cmdVars,
                    nicPlanSize, ipScanRunning, ipScanResults, ipScanProgressPercent,
                    renderedIpScanRunning, scanCalls, dispatchLog, batchLog,
                    lastScan, monitorVars, pingVars>>

RemoveAt(s, i) == SubSeq(s, 1, i - 1) \o SubSeq(s, i + 1, Len(s))

\* lines 690-717: fpingScan resolves and runIpScan runs on to its next
\* await or to its end.
FpingScanResolves ==
  \E i \in 1..Len(scanCalls) : \E pattern \in ReplyPatterns :
    LET c == scanCalls[i]
        result == FpingScanResult(c.batchTargets, pattern)
        total == Len(c.targets)
        d == [c EXCEPT !.collected = c.collected \o result.hosts,
                       !.processed = c.processed + Len(c.batchTargets),
                       !.reachable = AddReachable(c.reachable, result.received),
                       !.offset = c.offset + IP_SCAN_BATCH_SIZE]
        stop == ipScanStopRequestedRef
    IN  /\ ipScanResults' = d.collected
        /\ ipScanProgressPercent' = ProgressPercent(d.processed, total)
        /\ batchLog' = Append(batchLog, result.hosts)
        /\ IF ScanLoopContinues(d.offset, total, stop)
             THEN LET e == [d EXCEPT !.batchTargets =
                                        BatchTargets(d.targets, d.offset)]
                  IN  /\ scanCalls' = [scanCalls EXCEPT ![i] = e]
                      /\ dispatchLog' = Append(dispatchLog, e.batchTargets)
                      /\ ipScanProgressText' =
                           Text("scanning", d.processed, total, d.reachable)
                      /\ UNCHANGED <<statusMsg, ipScanRunning,
                                     ipScanStopPending,
                                     ipScanStopRequestedRef, lastScan>>
             ELSE /\ scanCalls' = RemoveAt(scanCalls, i)
                  /\ ScanExit(d, stop)
                  /\ UNCHANGED dispatchLog
        /\ UNCHANGED <<pureVars, logVars, diagVars, routeVars, cmdVars,
                       nicPlanSize, renderedIpScanRunning, renderedIpScanStopPending,
                       monitorVars, pingVars>>

\* fpingScan rejects and the finally block is left out
FpingScanRejects_NoFinally ==
  \E i \in 1..Len(scanCalls) :
    LET c == scanCalls[i]
    IN  /\ scanCalls' = RemoveAt(scanCalls, i)
        /\ statusMsg' = Msg("scanError")
        /\ ipScanProgressText' = Text("failed", 0, 0, 0)
        /\ lastScan' = [outcome |-> "error",
                        processed |-> c.processed,
                        total |-> Len(c.targets),
                        reachable |-> c.reachable,
                        stopAtEntry |-> c.stopAtEntry,
                        stopAtExit |-> ipScanStopRequestedRef]
        /\ UNCHANGED <<pureVars, logVars, diagVars, routeVars, cmdVars,
                       nicPlanSize, ipScanRunning, ipScanStopPending,
                       ipScanStopRequestedRef, ipScanResults,
                       ipScanProgressPercent, renderedIpScanRunning,
                       renderedIpScanStopPending, dispatchLog, batchLog,
                       monitorVars, pingVars>>

\* lines 711-717: fpingScan rejects
FpingScanRejects ==
  \E i \in 1..Len(scanCalls) :
    LET c == scanCalls[i]
    IN  /\ scanCalls' = RemoveAt(scanCalls, i)
        /\ statusMsg' = Msg("scanError")
        /\ ipScanProgressText' = Text("failed", 0, 0, 0)
        /\ ipScanRunning' = FALSE
        /\ ipScanStopPending' = FALSE
        /\ ipScanStopRequestedRef' = FALSE
        /\ lastScan' = [outcome |-> "error",
                        processed |-> c.processed,
                        total |-> Len(c.targets),
                        reachable |-> c.reachable,
                        stopAtEntry |-> c.stopAtEntry,
                        stopAtExit |-> ipScanStopRequestedRef]
        /\ UNCHANGED <<pureVars, logVars, diagVars, routeVars, cmdVars,
                       nicPlanSize, ipScanResults, ipScanProgressPercent,
                       renderedIpScanRunning, renderedIpScanStopPending,
                       dispatchLog, batchLog, monitorVars, pingVars>>

\* React renders the state set outside an event handler; the callbacks of
\* the new render close over it.
Render ==
  /\ \/ renderedIpScanRunning # ipScanRunning
     \/ renderedIpScanStopPending # ipScanStopPending
  /\ renderedIpScanRunning' = ipScanRunning
  /\ renderedIpScanStopPending' = ipScanStopPending
  /\ UNCHANGED <<pureVars, logVars, diagVars, routeVars, cmdVars,
                 statusMsg, nicPlanSize, ipScanRunning, ipScanStopPending,
                 ipScanStopRequestedRef, ipScanResults,
                 ipScanProgressPercent, ipScanProgressText, scanCalls,
                 dispatchLog, batchLog, lastScan, monitorVars, pingVars>>

ScanInit ==
  /\ nicPlanSize = 0
  /\ ipScanRunning = FALSE
  /\ ipScanStopPending = FALSE
  /\ ipScanStopRequestedRef = FALSE
  /\ ipScanResults = <<>>
  /\ ipScanProgressPercent = 0
  /\ ipScanProgressText = Text("ready", 0, 0, 0)
  /\ renderedIpScanRunning = FALSE
  /\ renderedIpScanStopPending = FALSE
  /\ scanCalls = <<>>
  /\ dispatchLog = <<>>
  /\ batchLog = <<>>
  /\ lastScan = NoScan

\* ------------------------------------------------------------------------
\* Internet and latency monitors (App.tsx 379-415)
\* ------------------------------------------------------------------------

LatencyValues == {12}

\* the monitors made to wait for a running scan
MonitorMayTick_WaitsForScan == monitorRef /\ scanCalls = <<>>

\* lines 383 and 402: if (!monitorRef.current) return
MonitorMayTick == monitorRef

\* lines 382-385: an interval tick issues checkInternet
InternetTick ==
  /\ inetPending < MaxPending
  /\ IF MonitorMayTick
       THEN inetPending' = inetPending + 1
       ELSE UNCHANGED inetPending
  /\ UNCHANGED <<pureVars, logVars, diagVars, routeVars, cmdVars, statusMsg,
                 scanVars, monitorRef, isOnline,
                 currentLatency, latencyPending, pingVars>>

\* lines 385-389 and 391: checkInternet resolves or rejects
InternetDone ==
  /\ inetPending > 0
  /\ inetPending' = inetPending - 1
  /\ \E online \in {"online", "offline"} : isOnline' = online
  /\ UNCHANGED <<pureVars, logVars, diagVars, routeVars, cmdVars,
                 statusMsg, scanVars, monitorRef, currentLatency,
                 latencyPending, pingVars>>

\* lines 401-404: an interval tick issues pingHost("8.8.8.8", 1)
LatencyTick ==
  /\ latencyPending < MaxPending
  /\ IF MonitorMayTick
       THEN latencyPending' = latencyPending + 1
       ELSE UNCHANGED latencyPending
  /\ UNCHANGED <<pureVars, logVars, diagVars, routeVars, cmdVars, statusMsg,
                 scanVars, monitorRef, isOnline,
                 currentLatency, inetPending, pingVars>>

\* lines 404-409: pingHost resolves (success or not) or rejects
LatencyDone ==
  /\ latencyPending > 0
  /\ latencyPending' = latencyPending - 1
  /\ \/ \E ms \in LatencyValues : currentLatency' = ms
     \/ currentLatency' = 0
  /\ UNCHANGED <<pureVars, logVars, diagVars, routeVars, cmdVars, statusMsg,
                 scanVars, monitorRef, isOnline,
                 inetPending, pingVars>>

\* After mount: both intervals run and the first checkInternet (line 391)
\* is in flight.
MonitorInit ==
  /\ monitorRef = TRUE
  /\ isOnline = "unknown"
  /\ currentLatency = 0
  /\ inetPending = 1
  /\ latencyPending = 0

\* ------------------------------------------------------------------------
\* Continuous ping (App.tsx 1053-1132)
\* ------------------------------------------------------------------------

DefaultPingTarget == <<"1", ".", "1", ".", "1", ".", "1">>

\* pingTarget.trim() || "1.1.1.1"
PingTargetOrDefault(t) == IF Trim(t) = <<>> THEN DefaultPingTarget ELSE Trim(t)

\* line 1086 without the check
PingBusy_Never == FALSE

\* line 1086: if (pingBusyRef.current) return
PingBusy == pingBusyRef

\* lines 1085-1090, 1105: runOnce up to its await; a call made while a
\* probe is outstanding returns at once.
runOnce(mode) ==
  IF PingBusy
    THEN UNCHANGED <<pingBusyRef, pingCalls>>
    ELSE /\ pingBusyRef' = TRUE
         /\ pingCalls' = Append(pingCalls, mode)

\* lines 1070-1132: the effect, run when one of pingRunning, pingTarget,
\* pingMode has changed: the old interval is cleared, and while running
\* runOnce is called and a new interval is set.
PingEffect(running, target, mode) ==
  IF running = pingRunning /\ target = pingTarget /\ mode = pingMode
    THEN UNCHANGED <<pingLoopRef, pingBusyRef, pingCalls>>
    ELSE IF running
      THEN /\ pingLoopRef' = TRUE
           /\ runOnce(mode)
      ELSE /\ pingLoopRef' = FALSE
           /\ UNCHANGED <<pingBusyRef, pingCalls>>

\* lines 1053-1061
handleStartPing ==
  /\ Len(pingCalls) < MaxPingCalls
  /\ pingTarget' = PingTargetOrDefault(pingTarget)
  /\ pingSeqRef' = 0
  /\ pingLogAfterStop' = "none"
  /\ statusMsg' = Msg("pingStarted")
  /\ pingRunning' = TRUE
  /\ PingEffect(TRUE, pingTarget', pingMode)
  /\ UNCHANGED <<pureVars, logVars, diagVars, routeVars, cmdVars, scanVars,
                 monitorVars, pingMode>>

\* lines 1063-1068
handleStopPing ==
  /\ pingRunning' = FALSE
  /\ pingLogAfterStop' = "marker"
  /\ statusMsg' = Msg("pingStopped")
  /\ PingEffect(FALSE, pingTarget, pingMode)
  /\ UNCHANGED <<pureVars, logVars, diagVars, routeVars, cmdVars,
                 scanVars, monitorVars, pingTarget, pingMode,
                 pingSeqRef>>

\* lines 1478 and 1484
setPingMode ==
  /\ Len(pingCalls) < MaxPingCalls
  /\ \E mode \in {"ping", "fping"} :
       /\ mode # pingMode
       /\ pingMode' = mode
       /\ PingEffect(pingRunning, pingTarget, mode)
  /\ UNCHANGED <<pureVars, logVars, diagVars, routeVars, cmdVars,
                 statusMsg, scanVars, monitorVars, pingTarget,
                 pingRunning, pingSeqRef, pingLogAfterStop>>

\* lines 1122-1124: the interval fires
PingIntervalTick ==
  /\ pingLoopRef
  /\ Len(pingCalls) < MaxPingCalls
  /\ runOnce(pingMode)
  /\ UNCHANGED <<pureVars, logVars, diagVars, routeVars, cmdVars,
                 statusMsg, scanVars, monitorVars, pingTarget,
                 pingMode, pingRunning, pingLoopRef, pingSeqRef,
                 pingLogAfterStop>>

\* lines 1103-1115: appendPingLine(s) of runOnce, as seen from the last
\* Stopped marker of the log
LineAfterStop(after, kind) == IF after = "none" THEN "none" ELSE kind

\* lines 1090-1118: the probe of runOnce resolves (the round is counted and
\* the result is logged) or rejects (the error is logged), and the finally
\* block frees pingBusyRef.
PingProbeDone ==
  \E i \in 1..Len(pingCalls) :
    /\ pingCalls' = RemoveAt(pingCalls, i)
    /\ pingBusyRef' = FALSE
    /\ \/ /\ pingSeqRef' = Min(pingSeqRef + 1, MaxPingSeq)
          /\ pingLogAfterStop' = LineAfterStop(pingLogAfterStop, "result")
       \/ /\ pingLogAfterStop' = LineAfterStop(pingLogAfterStop, "error")
          /\ UNCHANGED pingSeqRef
    /\ UNCHANGED <<pureVars, logVars, diagVars, routeVars, cmdVars,
                   statusMsg, scanVars, monitorVars, pingTarget,
                   pingMode, pingRunning, pingLoopRef>>

PingInit ==
  /\ pingTarget = DefaultPingTarget
  /\ pingMode = "ping"
  /\ pingRunning = FALSE
  /\ pingLoopRef = FALSE
  /\ pingBusyRef = FALSE
  /\ pingSeqRef = 0
  /\ pingLogAfterStop = "none"
  /\ pingCalls = <<>>

\* ------------------------------------------------------------------------
\* Network commands (api.ts 95-97; App.tsx 357-373, 539-563, 763-779,
\* 1390-1403) and the backend's run_network_command
\* ------------------------------------------------------------------------

MaxCmdCalls == 1        \* most run_network_command requests in flight
MaxLoads == 1           \* most loadData calls in flight
MaxInputLen == 2        \* longest text typed into the ping target field

\* the character U+0060 (grave accent), which a string of this language
\* cannot hold, written by name
Backtick == "U+0060"

LowerSeq ==
  <<"a", "b", "c", "d", "e", "f", "g", "h", "i", "j", "k", "l", "m", "n",
    "o", "p", "q", "r", "s", "t", "u", "v", "w", "x", "y", "z">>

UpperSeq ==
  <<"A", "B", "C", "D", "E", "F", "G", "H", "I", "J", "K", "L", "M", "N",
    "O", "P", "Q", "R", "S", "T", "U", "V", "W", "X", "Y", "Z">>

ToLowerChar(c) ==
  IF c \in UpperChars
    THEN LowerSeq[CHOOSE k \in 1..26 : UpperSeq[k] = c]
    ELSE c

ToLowerCase(s) == [i \in 1..Len(s) |-> ToLowerChar(s[i])]

\* String.prototype.includes
Contains(s, sub) ==
  \E i \in 1..(Len(s) - Len(sub) + 1) : SubSeq(s, i, i + Len(sub) - 1) = sub

StartsWith(s, prefix) ==
  Len(prefix) <= Len(s) /\ SubSeq(s, 1, Len(prefix)) = prefix

RECURSIVE TakeUntil(_, _)
TakeUntil(s, stops) ==
  IF s = <<>> \/ Head(s) \in stops THEN <<>>
  ELSE <<Head(s)>> \o TakeUntil(Tail(s), stops)

RECURSIVE DropWhile(_, _)
DropWhile(s, chars) ==
  IF s # <<>> /\ Head(s) \in chars THEN DropWhile(Tail(s), chars) ELSE s

\* String.prototype.split(/[chars]+/): the pieces between runs of
\* separators; a separator at either end leaves an empty piece there.
RECURSIVE SplitRuns(_, _, _, _)
SplitRuns(s, seps, cur, acc) ==
  IF s = <<>> THEN Append(acc, cur)
  ELSE IF Head(s) \in seps
    THEN SplitRuns(DropWhile(s, seps), seps, <<>>, Append(acc, cur))
  ELSE SplitRuns(Tail(s), seps, Append(cur, Head(s)), acc)

\* Array.prototype.find(Boolean) on strings: the first non-empty one
RECURSIVE FindNonEmpty(_)
FindNonEmpty(ss) ==
  IF ss = <<>> THEN Null
  ELSE IF Head(ss) # <<>> THEN Some(Head(ss))
  ELSE FindNonEmpty(Tail(ss))

\* line 1391: "ipconfig /flushdns"
FlushDnsCommand ==
  <<"i", "p", "c", "o", "n", "f", "i", "g", " ", "/", "f", "l", "u", "s",
    "h", "d", "n", "s">>

\* line 1393: "ipconfig /release && ipconfig /renew"
RenewIpCommand ==
  <<"i", "p", "c", "o", "n", "f", "i", "g", " ", "/", "r", "e", "l", "e",
    "a", "s", "e", " ", "&", "&", " ", "i", "p", "c", "o", "n", "f", "i",
    "g", " ", "/", "r", "e", "n", "e", "w">>

\* line 1395: "netsh wlan show interface"
WifiInfoCommand ==
  <<"n", "e", "t", "s", "h", " ", "w", "l", "a", "n", " ", "s", "h", "o",
    "w", " ", "i", "n", "t", "e", "r", "f", "a", "c", "e">>

\* line 1397: "netsh interface ip delete arpcache"
ClearArpCommand ==
  <<"n", "e", "t", "s", "h", " ", "i", "n", "t", "e", "r", "f", "a", "c",
    "e", " ", "i", "p", " ", "d", "e", "l", "e", "t", "e", " ", "a", "r",
    "p", "c", "a", "c", "h", "e">>

\* line 1399: "netsh int ip reset"
ResetTcpIpCommand ==
  <<"n", "e", "t", "s", "h", " ", "i", "n", "t", " ", "i", "p", " ", "r",
    "e", "s", "e", "t">>

\* line 1401: "netsh winsock reset"
ResetWinsockCommand ==
  <<"n", "e", "t", "s", "h", " ", "w", "i", "n", "s", "o", "c", "k", " ",
    "r", "e", "s", "e", "t">>

\* line 1403: "netsh advfirewall reset"
ResetFirewallCommand ==
  <<"n", "e", "t", "s", "h", " ", "a", "d", "v", "f", "i", "r", "e", "w",
    "a", "l", "l", " ", "r", "e", "s", "e", "t">>

\* lines 1390-1403: the buttons of the Network Fix Tools panel, each with
\* the command it passes to executeNetCmd and its refresh option
ToolButtons ==
  { [cmd |-> FlushDnsCommand, refresh |-> FALSE],
    [cmd |-> RenewIpCommand, refresh |-> TRUE],
    [cmd |-> WifiInfoCommand, refresh |-> FALSE],
    [cmd |-> ClearArpCommand, refresh |-> TRUE],
    [cmd |-> ResetTcpIpCommand, refresh |-> TRUE],
    [cmd |-> ResetWinsockCommand, refresh |-> TRUE],
    [cmd |-> ResetFirewallCommand, refresh |-> TRUE] }

\* line 772: "tracert -d "
TracertPrefix == <<"t", "r", "a", "c", "e", "r", "t", " ", "-", "d", " ">>

\* line 768: "8.8.8.8"
DefaultTracertTarget == <<"8", ".", "8", ".", "8", ".", "8">>

\* line 766: the characters of /[\s,;]+/
TracertSeparators == SpaceChars \cup {",", ";"}

\* lines 764-768: the first non-empty piece of the trimmed ping target,
\* or "8.8.8.8"
TracertTarget(target) ==
  LET pieces == SplitRuns(Trim(target), TracertSeparators, <<>>, <<>>)
      trimmed == [i \in 1..Len(pieces) |-> Trim(pieces[i])]
      found == FindNonEmpty(trimmed)
  IN  IF found = Null THEN DefaultTracertTarget ELSE found[1]

\* line 772: the template "tracert -d ${target}"
TracertCommand(target) == TracertPrefix \o target

\* the request with the command wrapped in a shell invocation
runNetworkCommand_Wrapped(command) ==
  <<"p", "o", "w", "e", "r", "s", "h", "e", "l", "l", " ">> \o command

\* api.ts 95-97: the command line of the run_network_command request
runNetworkCommand(command) == command

\* the program names run_network_command lets through: those of the
\* commands the application issues
AllowedPrefixes ==
  { <<"i", "p", "c", "o", "n", "f", "i", "g">>,
    <<"n", "e", "t", "s", "h">>,
    <<"n", "s", "l", "o", "o", "k", "u", "p">>,
    <<"t", "r", "a", "c", "e", "r", "t">>,
    <<"p", "o", "w", "e", "r", "s", "h", "e", "l", "l">> }

\* the leading program name of a command line
LeadingToken(commandLine) == TakeUntil(TrimStart(commandLine), SpaceChars)

\* the leading program name, compared without regard to case, begins with
\* an allow-listed prefix
MatchesAllowList(commandLine) ==
  \E p \in AllowedPrefixes :
    StartsWith(ToLowerCase(LeadingToken(commandLine)), p)

\* a metacharacter that chains a further command: semicolon, double
\* ampersand, backtick
HasChaining(commandLine) ==
  \/ Contains(commandLine, <<";">>)
  \/ Contains(commandLine, <<"&", "&">>)
  \/ Contains(commandLine, <<Backtick>>)

\* the recipes that compose two calls by a fixed template
StaticRecipes == {RenewIpCommand}

\* the guard of run_network_command
authorize(commandLine) ==
  /\ MatchesAllowList(commandLine)
  /\ HasChaining(commandLine) => commandLine \in StaticRecipes

\* what the backend may answer to a command line: a command the guard lets
\* through is executed and succeeds or fails, with or without the notice
\* that it needs elevation; any other is not executed, and the request
\* fails with a result or with an error.
BackendOutcomes(commandLine) ==
  IF authorize(commandLine)
    THEN { [executed |-> Some(commandLine), success |-> s, elevation |-> e,
            threw |-> FALSE] : s \in BOOLEAN, e \in BOOLEAN }
    ELSE { [executed |-> Null, success |-> FALSE, elevation |-> FALSE,
            threw |-> t] : t \in BOOLEAN }

\* the texts typed into the ping target field
InputChars == {"a", " ", ";", "&", Backtick}
InputStrings == UNION { [1..n -> InputChars] : n \in 0..MaxInputLen }

\* the command lines of the callers of runNetworkCommand at large: a
\* program name, allow-listed or not, and what follows it
CallerPrograms ==
  { <<"i", "p", "c", "o", "n", "f", "i", "g">>,
    <<"I", "P", "C", "O", "N", "F", "I", "G">>,
    <<"t", "r", "a", "c", "e", "r", "t">>,
    <<"c", "a", "l", "c">>,
    <<"c", "m", "d">>,
    <<"i", "p">>,
    <<>> }

CallerTails ==
  { <<>>,
    <<" ", "/", "a", "l", "l">>,
    <<" ", "i", "p", "c", "o", "n", "f", "i", "g">>,
    <<" ", "&", "&", " ", "c", "a", "l", "c">>,
    <<";", "c", "a", "l", "c">>,
    <<" ", Backtick, "c", "a", "l", "c", Backtick>> }

CommandLines ==
  { p \o t : p \in CallerPrograms, t \in CallerTails } \cup {RenewIpCommand}

Call(origin, asked, refresh) ==
  [origin |-> origin, asked |-> asked, refresh |-> refresh]

\* lines 539-547: executeNetCmd up to its await
executeNetCmdStart(cmd, refresh) ==
  /\ Len(cmdCalls) < MaxCmdCalls
  /\ statusMsg' = Msg("cmdRunning")
  /\ cmdCalls' = Append(cmdCalls, Call("executeNetCmd", cmd, refresh))

executeNetCmd(cmd, refresh) ==
  /\ executeNetCmdStart(cmd, refresh)
  /\ UNCHANGED <<pureVars, logVars, diagVars, routeVars, scanVars,
                 monitorVars, pingVars,
                 cmdDone, loadPending>>

\* lines 1390-1403: a button of the Network Fix Tools panel is clicked
ToolBtnClick == \E b \in ToolButtons : executeNetCmd(b.cmd, b.refresh)

\* line 1495: the ping target field is edited
setPingTarget ==
  /\ Len(pingCalls) < MaxPingCalls
  /\ \E v \in InputStrings :
       /\ v # pingTarget
       /\ pingTarget' = v
       /\ PingEffect(pingRunning, v, pingMode)
  /\ UNCHANGED <<pureVars, logVars, diagVars, routeVars, statusMsg, scanVars,
                 monitorVars, pingMode,
                 pingRunning, pingSeqRef, pingLogAfterStop, cmdVars>>

\* lines 763-772: handleTracertFromTarget up to its await
handleTracertFromTarget ==
  /\ Len(cmdCalls) < MaxCmdCalls
  /\ statusMsg' = Msg("tracertRunning")
  /\ cmdCalls' =
       Append(cmdCalls,
              Call("tracert", TracertCommand(TracertTarget(pingTarget)),
                   FALSE))
  /\ UNCHANGED <<pureVars, logVars, diagVars, routeVars, scanVars,
                 monitorVars, pingVars, cmdDone,
                 loadPending>>

\* api.ts 95-97: runNetworkCommand called with a command line of any kind
InvokeRunNetworkCommand ==
  /\ Len(cmdCalls) < MaxCmdCalls
  /\ \E line \in CommandLines :
       cmdCalls' = Append(cmdCalls, Call("caller", line, FALSE))
  /\ UNCHANGED <<pureVars, logVars, diagVars, routeVars, statusMsg, scanVars,
                 monitorVars, pingVars,
                 cmdDone, loadPending>>

\* lines 548-562: the status executeNetCmd leaves; loadData, called last
\* for a command with the refresh option, sets its own (line 359)
NetCmdStatus(out, refresh) ==
  IF out.threw THEN Msg("error")
  ELSE IF refresh THEN Msg("loadingData")
  ELSE IF out.elevation THEN Msg("cmdElevation")
  ELSE IF out.success THEN Msg("cmdSuccess")
  ELSE Msg("cmdFailed")

\* lines 773-777: the status handleTracertFromTarget leaves
TracertStatus(out) ==
  IF out.threw THEN Msg("tracertError")
  ELSE IF out.success THEN Msg("tracertDone")
  ELSE Msg("tracertFailed")

\* the backend answers a request, and the caller's continuation runs:
\* executeNetCmd lines 548-562, handleTracertFromTarget lines 773-777
RunNetworkCommandReturns ==
  \E i \in 1..Len(cmdCalls) :
    LET call == cmdCalls[i]
    IN  \E out \in BackendOutcomes(runNetworkCommand(call.asked)) :
          LET reload == call.refresh /\ ~out.threw
          IN  /\ reload => loadPending < MaxLoads
              /\ cmdCalls' = RemoveAt(cmdCalls, i)
              /\ cmdDone' =
                   Some([origin |-> call.origin, asked |-> call.asked,
                         executed |-> out.executed,
                         success |-> out.success,
                         elevation |-> out.elevation, threw |-> out.threw])
              /\ statusMsg' =
                   CASE call.origin = "executeNetCmd" ->
                          NetCmdStatus(out, call.refresh)
                     [] call.origin = "tracert" -> TracertStatus(out)
                     [] OTHER -> statusMsg
              /\ loadPending' = IF reload THEN loadPending + 1 ELSE loadPending
              /\ UNCHANGED <<pureVars, logVars, diagVars, routeVars,
                             scanVars, monitorVars, pingVars>>

\* lines 361-372: the data loadData asked for arrives, or the request
\* fails; new routes may change the scan plan of a selected interface
LoadDataDone ==
  /\ loadPending > 0
  /\ loadPending' = loadPending - 1
  /\ \/ /\ statusMsg' = Msg("loaded")
        /\ nicPlanSize' \in IF nicPlanSize = 0 THEN {0} ELSE PlanSizes \ {0}
     \/ /\ statusMsg' = Msg("error")
        /\ UNCHANGED nicPlanSize
  /\ UNCHANGED <<pureVars, logVars, diagVars, routeVars, ipScanRunning,
                 ipScanStopPending,
                 ipScanStopRequestedRef, ipScanResults, ipScanProgressPercent,
                 ipScanProgressText, renderedIpScanRunning,
                 renderedIpScanStopPending, scanCalls, dispatchLog, batchLog,
                 lastScan, monitorVars, pingVars, cmdCalls, cmdDone>>

CmdInit ==
  /\ cmdCalls = <<>>
  /\ cmdDone = Null
  /\ loadPending = 1

\* ------------------------------------------------------------------------
\* Route form, route operations and the confirmation dialog
\* (App.tsx 424-478, 615-636, 1029-1051, 1340-1361)

MaxRouteCalls == 1

\* the two values of the Destination field that the handlers tell apart;
\* the Gateway field holds what handleSelectNic copied into it
FormDestValues == {"", "10.0.0.0"}

\* line 1334: the Destination field is edited
setFormDest ==
  /\ \E v \in FormDestValues : v # formDest /\ formDest' = v
  /\ UNCHANGED <<pureVars, logVars, diagVars, statusMsg, scanVars,
                 monitorVars, pingVars,
                 cmdVars, formGw, selectedNicGateway, confirmVars,
                 routeCalls, routeDone, defaultRoute>>

RouteCall(op, gateway) == [op |-> op, gateway |-> gateway]

\* what a handler leaves alone when it touches the status line and the
\* requests only
RouteFrame ==
  UNCHANGED <<pureVars, logVars, diagVars, scanVars, monitorVars, pingVars,
              cmdVars, formDest,
              formGw, selectedNicGateway, confirmVars, routeDone,
              defaultRoute>>

\* lines 424-430: handleAddRoute up to its await
handleAddRoute ==
  /\ IF formDest = "" \/ formGw = ""
       THEN /\ statusMsg' = Msg("fillDestGw")
            /\ UNCHANGED routeCalls
       ELSE /\ Len(routeCalls) < MaxRouteCalls
            /\ statusMsg' = Msg("addingRoute")
            /\ routeCalls' = Append(routeCalls, RouteCall("addRoute", formGw))
  /\ RouteFrame

\* lines 439-445: handleDeleteRoute up to its await
handleDeleteRoute ==
  /\ IF formDest = ""
       THEN /\ statusMsg' = Msg("fillDest")
            /\ UNCHANGED routeCalls
       ELSE /\ Len(routeCalls) < MaxRouteCalls
            /\ statusMsg' = Msg("deletingRoute")
            /\ routeCalls' = Append(routeCalls, RouteCall("deleteRoute", ""))
  /\ RouteFrame

\* lines 454-461: executeSetInternet up to its await, for the gateway of
\* the interface that was selected when the callback was made
executeSetInternet(gateway) ==
  IF gateway = ""
    THEN /\ statusMsg' = Msg("selectNicGateway")
         /\ UNCHANGED routeCalls
    ELSE /\ Len(routeCalls) < MaxRouteCalls
         /\ statusMsg' = Msg("settingDefaultGateway")
         /\ routeCalls' =
              Append(routeCalls, RouteCall("setDefaultGateway", gateway))

\* lines 469-472: executeFlush up to its await
executeFlush ==
  /\ Len(routeCalls) < MaxRouteCalls
  /\ statusMsg' = Msg("flushingRoutes")
  /\ routeCalls' = Append(routeCalls, RouteCall("flushRoutes", ""))

\* line 619: "netsh winhttp reset proxy"
ResetWinHttpProxyCommand ==
  <<"n", "e", "t", "s", "h", " ", "w", "i", "n", "h", "t", "t", "p", " ",
    "r", "e", "s", "e", "t", " ", "p", "r", "o", "x", "y">>

\* line 628
RestartAdaptersCommand ==
  <<"p", "o", "w", "e", "r", "s", "h", "e", "l", "l", " ", "-", "N", "o",
    "P", "r", "o", "f", "i", "l", "e", " ", "-", "C", "o", "m", "m", "a",
    "n", "d", " ", "G", "e", "t", "-", "N", "e", "t", "A", "d", "a", "p",
    "t", "e", "r", " ", "-", "P", "h", "y", "s", "i", "c", "a", "l", " ",
    "^", "|", " ", "W", "h", "e", "r", "e", "-", "O", "b", "j", "e", "c",
    "t", " ", "{", "$", "_", ".", "S", "t", "a", "t", "u", "s", " ", "-",
    "e", "q", " ", "'", "U", "p", "'", "}", " ", "^", "|", " ", "R", "e",
    "s", "t", "a", "r", "t", "-", "N", "e", "t", "A", "d", "a", "p", "t",
    "e", "r", " ", "-", "C", "o", "n", "f", "i", "r", "m", ":", "$", "f",
    "a", "l", "s", "e">>

\* the callbacks handed to openConfirm
ConfirmAction(name, gateway) == [name |-> name, gateway |-> gateway]

\* lines 1029-1038
openConfirm(title, action) ==
  /\ confirmActionRef' = Some(action)
  /\ confirmTitle' = title
  /\ confirmOpen' = TRUE
  /\ UNCHANGED <<pureVars, logVars, diagVars, statusMsg, scanVars,
                 monitorVars, pingVars,
                 cmdVars, formDest, formGw, selectedNicGateway, routeCalls,
                 routeDone, defaultRoute>>

\* lines 1342-1350: the WAN button
WanBtnClick_Direct ==
  /\ executeSetInternet(selectedNicGateway)
  /\ RouteFrame

WanBtnClick ==
  openConfirm("Set Default Gateway",
              ConfirmAction("executeSetInternet", selectedNicGateway))

\* lines 1352-1360: the FLUSH button
FlushBtnClick_Direct ==
  /\ executeFlush
  /\ RouteFrame

FlushBtnClick ==
  openConfirm("Clear All Routes", ConfirmAction("executeFlush", ""))

\* lines 615-621
handleResetWinHttpProxy ==
  openConfirm("Reset WinHTTP Proxy", ConfirmAction("resetWinHttpProxy", ""))

\* lines 623-634
handleRestartAdapters ==
  openConfirm("Restart Active Adapters",
              ConfirmAction("restartAdapters", ""))

\* the callback runs up to its first await
RunConfirmAction(action) ==
  IF action.name = "executeSetInternet"
    THEN executeSetInternet(action.gateway) /\ UNCHANGED cmdCalls
  ELSE IF action.name = "executeFlush"
    THEN executeFlush /\ UNCHANGED cmdCalls
  ELSE IF action.name = "resetWinHttpProxy"
    THEN /\ executeNetCmdStart(ResetWinHttpProxyCommand, TRUE)
         /\ UNCHANGED routeCalls
  ELSE /\ executeNetCmdStart(RestartAdaptersCommand, TRUE)
       /\ UNCHANGED routeCalls

\* lines 1040-1046: Confirm is clicked on the dialog
onConfirm ==
  /\ confirmOpen
  /\ confirmActionRef' = Null
  /\ confirmOpen' = FALSE
  /\ IF confirmActionRef = Null
       THEN UNCHANGED <<statusMsg, routeCalls, cmdCalls>>
       ELSE RunConfirmAction(confirmActionRef[1])
  /\ UNCHANGED <<pureVars, logVars, diagVars, scanVars, monitorVars,
                 pingVars, cmdDone,
                 loadPending, formDest, formGw, selectedNicGateway,
                 confirmTitle, routeDone, defaultRoute>>

\* lines 1048-1051: Cancel is clicked on the dialog
onCancelConfirm ==
  /\ confirmOpen
  /\ confirmActionRef' = Null
  /\ confirmOpen' = FALSE
  /\ UNCHANGED <<pureVars, logVars, diagVars, statusMsg, scanVars,
                 monitorVars, pingVars,
                 cmdVars, formDest, formGw, selectedNicGateway, confirmTitle,
                 routeCalls, routeDone, defaultRoute>>

\* The route commands of the backend. A request meets one of three
\* conditions: the process is elevated and the route tool does what it is
\* asked; it is not, and the tool refuses with the elevation notice; or the
\* request itself fails with an error.
RouteEnvs == {"elevated", "denied", "error"}

\* the delete of the 0.0.0.0/0 route: fails when there is none
DeleteDefaultStep(table, env) ==
  LET ok == env = "elevated" /\ table # Null
  IN  [ok |-> ok, table |-> IF ok THEN Null ELSE table]

\* the add of the new 0.0.0.0/0 route
AddDefaultStep(table, gateway, env) ==
  LET ok == env = "elevated"
  IN  [ok |-> ok, table |-> IF ok THEN Some(gateway) ELSE table]

\* set default gateway stopping at a failed delete
set_default_gateway_StopOnDeleteFailure(table, gateway, env) ==
  LET del == DeleteDefaultStep(table, env)
      add == AddDefaultStep(del.table, gateway, env)
  IN  IF del.ok
        THEN [success |-> add.ok, elevation |-> ~add.ok, deleteOk |-> TRUE,
              addAttempted |-> TRUE, table |-> add.table]
        ELSE [success |-> FALSE, elevation |-> env = "denied",
              deleteOk |-> FALSE, addAttempted |-> FALSE,
              table |-> del.table]

\* set default gateway: the delete, its failure ignored, then the add
set_default_gateway(table, gateway, env) ==
  LET del == DeleteDefaultStep(table, env)
      add == AddDefaultStep(del.table, gateway, env)
  IN  [success |-> add.ok, elevation |-> ~add.ok, deleteOk |-> del.ok,
       addAttempted |-> TRUE, table |-> add.table]

\* add, delete and flush: one call of the route tool
RouteToolOutcome(op, table, env) ==
  [success |-> env = "elevated", elevation |-> env = "denied",
   deleteOk |-> FALSE, addAttempted |-> FALSE,
   table |-> IF op = "flushRoutes" /\ env = "elevated" THEN Null ELSE table]

\* what the backend answers to a route request
RouteBackend(call, table, env) ==
  IF env = "error"
    THEN [success |-> FALSE, elevation |-> FALSE, deleteOk |-> FALSE,
          addAttempted |-> FALSE, table |-> table]
  ELSE IF call.op = "setDefaultGateway"
    THEN set_default_gateway(table, call.gateway, env)
  ELSE RouteToolOutcome(call.op, table, env)

\* lines 431-436, 446-451, 462-466, 473-477: the continuation of a route
\* handler sets its message of success whatever the result says and calls
\* loadData, whose message (line 359) is the one rendered; a rejected
\* request gives the error message
RouteStatus(threw) == IF threw THEN Msg("error") ELSE Msg("loadingData")

\* the backend answers a route request and the handler's continuation runs
RouteCallReturns ==
  \E i \in 1..Len(routeCalls), env \in RouteEnvs :
    LET call == routeCalls[i]
        out == RouteBackend(call, defaultRoute, env)
        threw == env = "error"
    IN  /\ ~threw => loadPending < MaxLoads
        /\ routeCalls' = RemoveAt(routeCalls, i)
        /\ routeDone' =
             Some([op |-> call.op, gateway |-> call.gateway, env |-> env,
                   hadDefault |-> defaultRoute # Null,
                   success |-> out.success, elevation |-> out.elevation,
                   threw |-> threw, deleteOk |-> out.deleteOk,
                   addAttempted |-> out.addAttempted])
        /\ defaultRoute' = out.table
        /\ statusMsg' = RouteStatus(threw)
        /\ loadPending' = IF threw THEN loadPending ELSE loadPending + 1
        /\ UNCHANGED <<pureVars, logVars, diagVars, scanVars, monitorVars,
                       pingVars, cmdCalls,
                       cmdDone, formDest, formGw, selectedNicGateway,
                       confirmVars>>

RouteInit ==
  /\ formDest = ""
  /\ formGw = ""
  /\ selectedNicGateway = ""
  /\ confirmOpen = FALSE
  /\ confirmTitle = ""
  /\ confirmActionRef = Null
  /\ routeCalls = <<>>
  /\ routeDone = Null
  /\ defaultRoute = Some("192.168.0.1")

\* ------------------------------------------------------------------------
\* Diagnostics: nslookup and port test (App.tsx 300-302, 585-589, 641-659)

MaxDiagLen == 3

DefaultDiagHost ==
  <<"g", "o", "o", "g", "l", "e", ".", "c", "o", "m">>

DefaultDiagDnsServer ==
  <<"8", ".", "8", ".", "8", ".", "8">>

DefaultDiagPort == <<"4", "4", "3">>

\* the characters the two regular expressions keep
HostTokenChars == LowerChars \cup UpperChars \cup DigitChars \cup {".", "-"}
DnsTokenChars == HostTokenChars \cup {":"}

\* String.prototype.replace(/[^...]/g, ""): the characters of keep stay
RECURSIVE RemoveNotIn(_, _)
RemoveNotIn(s, keep) ==
  IF s = <<>> THEN <<>>
  ELSE IF Head(s) \in keep THEN <<Head(s)>> \o RemoveNotIn(Tail(s), keep)
  ELSE RemoveNotIn(Tail(s), keep)

\* the host token with its white space trimmed and nothing removed
sanitizeHostToken_TrimOnly(value) == Trim(value)

\* lines 585-586
sanitizeHostToken(value) == RemoveNotIn(Trim(value), HostTokenChars)

\* lines 588-589
sanitizeDnsToken(value) == RemoveNotIn(Trim(value), DnsTokenChars)

\* s || d on strings: the empty string is falsy
OrDefault(s, d) == IF s = <<>> THEN d ELSE s

\* lines 651-652: the port of the port test
PortOf(text) ==
  LET portNum == ParseInt(text)
  IN  IF portNum # NaN /\ portNum[1] >= 1 /\ portNum[1] <= 65535
        THEN portNum[1]
        ELSE 443

\* line 646: the template of the nslookup command
NslookupCommand(host, dns) ==
  <<"n", "s", "l", "o", "o", "k", "u", "p", " ">> \o host \o <<" ">> \o dns

PortTestPrefix ==
  <<"p", "o", "w", "e", "r", "s", "h", "e", "l", "l", " ", "-", "N", "o",
    "P", "r", "o", "f", "i", "l", "e", " ", "-", "C", "o", "m", "m", "a",
    "n", "d", " ", "T", "e", "s", "t", "-", "N", "e", "t", "C", "o", "n",
    "n", "e", "c", "t", "i", "o", "n", " ", "-", "C", "o", "m", "p", "u",
    "t", "e", "r", "N", "a", "m", "e", " ">>

PortTestPortOption == <<" ", "-", "P", "o", "r", "t", " ">>

\* line 656: the template of the port test command
PortTestCommand(host, port) ==
  PortTestPrefix \o host \o PortTestPortOption \o NatToStr(port)

\* the texts typed into the host and DNS server fields
DiagChars == {"a", "-", ";", " ", ":"}
DiagStrings == UNION { [1..n -> DiagChars] : n \in 0..MaxDiagLen }

\* the texts typed into the port field
PortInputs ==
  { <<>>,
    <<"0">>,
    <<"1">>,
    <<"4", "4", "3">>,
    <<"6", "5", "5", "3", "5">>,
    <<"6", "5", "5", "3", "6">>,
    <<"8", "0", "a", "b", "c">>,
    <<" ", "8", "0">>,
    <<"-", "1">>,
    <<"a", "b", "c">>,
    <<"+", "8", "0">>,
    <<"0", "0", "7">> }

\* the three fields as the component starts (lines 300-302)
DiagDefaults ==
  /\ diagHost = DefaultDiagHost
  /\ diagDnsServer = DefaultDiagDnsServer
  /\ diagPort = DefaultDiagPort

\* one of the fields holds a typed text
DiagInputs ==
  \/ /\ diagHost \in DiagStrings
     /\ diagDnsServer = DefaultDiagDnsServer
     /\ diagPort = DefaultDiagPort
  \/ /\ diagHost = DefaultDiagHost
     /\ diagDnsServer \in DiagStrings
     /\ diagPort = DefaultDiagPort
  \/ /\ diagHost = DefaultDiagHost
     /\ diagDnsServer = DefaultDiagDnsServer
     /\ diagPort \in PortInputs

\* lines 641-647
handleNslookupTest ==
  LET host == OrDefault(sanitizeHostToken(diagHost), DefaultDiagHost)
      dns == OrDefault(sanitizeDnsToken(diagDnsServer), DefaultDiagDnsServer)
  IN  /\ diagHost' = host
      /\ diagDnsServer' = dns
      /\ executeNetCmdStart(NslookupCommand(host, dns), FALSE)
      /\ UNCHANGED <<pureVars, logVars, routeVars, scanVars, monitorVars,
                     pingVars,
                     cmdDone, loadPending, diagPort>>

\* lines 649-659
handlePortConnectivityTest ==
  LET host == OrDefault(sanitizeHostToken(diagHost), DefaultDiagHost)
      port == PortOf(diagPort)
  IN  /\ diagHost' = host
      /\ diagPort' = NatToStr(port)
      /\ executeNetCmdStart(PortTestCommand(host, port), FALSE)
      /\ UNCHANGED <<pureVars, logVars, routeVars, scanVars, monitorVars,
                     pingVars,
                     cmdDone, loadPending, diagDnsServer>>

\* ------------------------------------------------------------------------
\* buildIpScanPlan (App.tsx 59-61, 115-176)

IP_SCAN_MAX_TARGETS == 512
FALLBACK_IP_SCAN_PREFIX == 24

MaxRoutes == 2

Max(a, b) == IF a > b THEN a ELSE b

\* x <= y on numbers given as halves
NumLeq(x, y) == x.hi < y.hi \/ (x.hi = y.hi /\ x.lo <= y.lo)

ZeroAddress == <<"0", ".", "0", ".", "0", ".", "0">>
HostMask == <<"2", "5", "5", ".", "2", "5", "5", ".", "2", "5", "5", ".", "2", "5", "5">>

\* lines 124-129: the predicate of routes.find
IsConnectedRoute(route, nic) ==
  /\ route.interface_index = nic.index
  /\ route.gateway = ZeroAddress
  /\ ~(route.destination = ZeroAddress \/ route.netmask = HostMask)
  /\ parseIpv4(route.destination) # Null
  /\ parseIpv4(route.netmask) # Null

\* Array.prototype.find: the first element that satisfies the predicate
RECURSIVE FindConnectedRoute(_, _)
FindConnectedRoute(routes, nic) ==
  IF routes = <<>> THEN Null
  ELSE IF IsConnectedRoute(Head(routes), nic) THEN Some(Head(routes))
  ELSE FindConnectedRoute(Tail(routes), nic)

\* the test of lines 134-139 with the range of the prefix left out
RouteGivesSubnet_AnyPrefix(connectedRoute) ==
  /\ connectedRoute # Null
  /\ maskToPrefix(connectedRoute[1].netmask) # Null
  /\ parseIpv4(connectedRoute[1].destination) # Null

\* lines 131-139: the connected route gives the subnet
RouteGivesSubnet(connectedRoute) ==
  /\ connectedRoute # Null
  /\ LET routePrefix == maskToPrefix(connectedRoute[1].netmask)
         routeDestination == parseIpv4(connectedRoute[1].destination)
     IN  /\ routePrefix # Null
         /\ routePrefix[1] >= 16
         /\ routePrefix[1] <= 30
         /\ routeDestination # Null

\* line 161: nicInt >= firstHost && nicInt <= lastHost
SelfInRange(nicInt, firstHost, lastHost) ==
  NumLeq(firstHost, nicInt) /\ NumLeq(nicInt, lastHost)

\* lines 131-153: the prefix, the network number and the source of the
\* subnet
PlanSubnet(nicInt, connectedRoute) ==
  IF RouteGivesSubnet(connectedRoute)
    THEN [prefix |-> maskToPrefix(connectedRoute[1].netmask)[1],
          networkInt |->
            BitAnd(ipv4ToInt(parseIpv4(connectedRoute[1].destination)),
                   prefixToMaskInt(
                     maskToPrefix(connectedRoute[1].netmask)[1])),
          source |-> "route"]
    ELSE [prefix |-> FALLBACK_IP_SCAN_PREFIX,
          networkInt |->
            BitAnd(nicInt, prefixToMaskInt(FALLBACK_IP_SCAN_PREFIX)),
          source |-> "fallback"]

\* lines 162-163: availableTargets
AvailableTargets(hostCapacity, selfInRange) ==
  Max(0, hostCapacity - (IF selfInRange THEN 1 ELSE 0))

\* lines 155-164: the counts of the loop
PlanCounts(nicInt, subnet, hostSpan) ==
  [nicInt |-> nicInt,
   networkInt |-> subnet.networkInt,
   prefix |-> subnet.prefix,
   source |-> subnet.source,
   hostSpan |-> hostSpan,
   hostCapacity |-> Max(0, hostSpan - 2),
   availableTargets |->
     AvailableTargets(Max(0, hostSpan - 2),
                      SelfInRange(nicInt,
                                  NumAdd(subnet.networkInt, Num(1)),
                                  NumAdd(subnet.networkInt,
                                         Num(hostSpan - 2))))]

\* lines 118-164, for an interface whose address parses: the locals the
\* loop works on
PlanLocals(nicInt, connectedRoute) ==
  PlanCounts(nicInt, PlanSubnet(nicInt, connectedRoute),
             Pow2(32 - PlanSubnet(nicInt, connectedRoute).prefix))

\* line 164: scanCount
ScanCount(locals) == Min(IP_SCAN_MAX_TARGETS, locals.availableTargets)

\* the test of line 168 that never holds
IsSelf_Never(hostInt, nicInt) == FALSE

\* line 168: hostInt === nicInt
IsSelf(hostInt, nicInt) == NumEq(hostInt, nicInt)

\* lines 171-176: the plan returned
PlanOf(locals, targets) ==
  [targets |-> targets,
   subnetLabel |->
     intToIpv4(locals.networkInt) \o <<"/">> \o NatToStr(locals.prefix),
   truncated |-> locals.availableTargets > Len(targets),
   source |-> locals.source]

\* The interfaces and routes buildIpScanPlan is tried on.
NicLow == [index |-> "1", ip |-> <<"1", "0", ".", "0", ".", "0", ".", "5">>]

NicHigh == [index |-> "1", ip |-> <<"1", "9", "2", ".", "1", "6", "8", ".", "1", ".", "1", "0">>]

NicNetwork == [index |-> "1", ip |-> <<"1", "0", ".", "0", ".", "0", ".", "0">>]

NicInvalid == [index |-> "1", ip |-> <<"1", "0", ".", "0", ".", "0">>]

PlanNics == {NicLow, NicHigh, NicNetwork, NicInvalid}

\* the connected /16 of 10.0.0.0
RouteSlash16 ==
    [destination |-> <<"1", "0", ".", "0", ".", "0", ".", "0">>,
     netmask |-> <<"2", "5", "5", ".", "2", "5", "5", ".", "0", ".", "0">>,
     gateway |-> <<"0", ".", "0", ".", "0", ".", "0">>,
     interface_index |-> "1"]

\* the connected /24 of 192.168.1.0
RouteSlash24High ==
    [destination |-> <<"1", "9", "2", ".", "1", "6", "8", ".", "1", ".", "0">>,
     netmask |-> <<"2", "5", "5", ".", "2", "5", "5", ".", "2", "5", "5", ".", "0">>,
     gateway |-> <<"0", ".", "0", ".", "0", ".", "0">>,
     interface_index |-> "1"]

\* a connected /30
RouteSlash30 ==
    [destination |-> <<"1", "0", ".", "0", ".", "0", ".", "4">>,
     netmask |-> <<"2", "5", "5", ".", "2", "5", "5", ".", "2", "5", "5", ".", "2", "5", "2">>,
     gateway |-> <<"0", ".", "0", ".", "0", ".", "0">>,
     interface_index |-> "1"]

\* the default route
RouteDefault ==
    [destination |-> <<"0", ".", "0", ".", "0", ".", "0">>,
     netmask |-> <<"0", ".", "0", ".", "0", ".", "0">>,
     gateway |-> <<"1", "9", "2", ".", "1", "6", "8", ".", "1", ".", "1">>,
     interface_index |-> "1"]

\* a connected /15, wider than the scan accepts
RouteSlash15 ==
    [destination |-> <<"1", "0", ".", "0", ".", "0", ".", "0">>,
     netmask |-> <<"2", "5", "5", ".", "2", "5", "4", ".", "0", ".", "0">>,
     gateway |-> <<"0", ".", "0", ".", "0", ".", "0">>,
     interface_index |-> "1"]

\* a netmask with a hole
RouteHoles ==
    [destination |-> <<"1", "0", ".", "0", ".", "0", ".", "0">>,
     netmask |-> <<"2", "5", "5", ".", "0", ".", "2", "5", "5", ".", "0">>,
     gateway |-> <<"0", ".", "0", ".", "0", ".", "0">>,
     interface_index |-> "1"]

\* a host route
RouteHost ==
    [destination |-> <<"1", "0", ".", "0", ".", "0", ".", "5">>,
     netmask |-> <<"2", "5", "5", ".", "2", "5", "5", ".", "2", "5", "5", ".", "2", "5", "5">>,
     gateway |-> <<"0", ".", "0", ".", "0", ".", "0">>,
     interface_index |-> "1"]

\* a connected /16 of another interface
RouteOtherNic ==
    [destination |-> <<"1", "0", ".", "0", ".", "0", ".", "0">>,
     netmask |-> <<"2", "5", "5", ".", "2", "5", "5", ".", "0", ".", "0">>,
     gateway |-> <<"0", ".", "0", ".", "0", ".", "0">>,
     interface_index |-> "2"]

\* a route whose destination is no IPv4 address
RouteBadDestination ==
    [destination |-> <<"1", "0", ".", "0", ".", "0">>,
     netmask |-> <<"2", "5", "5", ".", "2", "5", "5", ".", "2", "5", "5", ".", "0">>,
     gateway |-> <<"0", ".", "0", ".", "0", ".", "0">>,
     interface_index |-> "1"]

\* a route whose netmask is no IPv4 address
RouteBadNetmask ==
    [destination |-> <<"1", "0", ".", "0", ".", "0", ".", "0">>,
     netmask |-> <<"2", "5", "5", ".", "2", "5", "5", ".", "2", "5", "5">>,
     gateway |-> <<"0", ".", "0", ".", "0", ".", "0">>,
     interface_index |-> "1"]

CuratedRouteLists ==
  { <<>>, <<RouteSlash16>>, <<RouteSlash24High>>, <<RouteSlash30>>,
    <<RouteDefault>>, <<RouteSlash15>>, <<RouteHoles>>, <<RouteHost>>,
    <<RouteOtherNic>>, <<RouteBadDestination>>, <<RouteBadNetmask>>,
    <<RouteDefault, RouteSlash30>>, <<RouteBadNetmask, RouteSlash30>>,
    <<RouteSlash15, RouteSlash30>>, <<RouteSlash30, RouteSlash16>>,
    <<RouteOtherNic, RouteHost>>,
    <<RouteDefault, RouteHost, RouteSlash30>>,
    <<RouteBadDestination, RouteHoles, RouteSlash30>> }

PlanRouteLists == { l \in CuratedRouteLists : Len(l) <= MaxRoutes }

PlanIdle ==
  /\ planNic = NicLow
  /\ planRoutes = <<>>
  /\ planPc = "idle"
  /\ planLocals = Null
  /\ planOffset = 0
  /\ planTargets = <<>>
  /\ planRet = Null

PlanInputs ==
  /\ planNic \in PlanNics
  /\ planRoutes \in PlanRouteLists
  /\ planPc = "idle"
  /\ planLocals = Null
  /\ planOffset = 0
  /\ planTargets = <<>>
  /\ planRet = Null

\* lines 115-166: buildIpScanPlan up to the loop
buildIpScanPlanEnter ==
  /\ planPc = "idle"
  /\ IF parseIpv4(planNic.ip) = Null
       THEN /\ planPc' = "done"
            /\ planRet' = Null
            /\ UNCHANGED <<planLocals, planOffset, planTargets>>
       ELSE /\ planLocals' =
                 PlanLocals(ipv4ToInt(parseIpv4(planNic.ip)),
                            FindConnectedRoute(planRoutes, planNic))
            /\ planPc' =
                 IF planLocals'.hostCapacity <= 0 THEN "done" ELSE "loop"
            /\ planOffset' = 1
            /\ planTargets' = <<>>
            /\ UNCHANGED planRet
  /\ UNCHANGED <<planNic, planRoutes, maskVars, fpingVars, statusMsg,
                 scanVars, monitorVars, pingVars, cmdVars, routeVars,
                 diagVars, logVars>>

\* lines 166-176: one turn of the loop, or its exit and the return
TargetLoopStep ==
  /\ planPc = "loop"
  /\ IF /\ planOffset < planLocals.hostSpan - 1
        /\ Len(planTargets) < ScanCount(planLocals)
       THEN LET hostInt ==
                  UShr(NumAdd(planLocals.networkInt, Num(planOffset)), 0)
            IN  /\ planOffset' = planOffset + 1
                /\ planTargets' =
                     IF IsSelf(hostInt, planLocals.nicInt) THEN planTargets
                     ELSE Append(planTargets, intToIpv4(hostInt))
                /\ UNCHANGED <<planPc, planRet>>
       ELSE /\ planPc' = "done"
            /\ planRet' = Some(PlanOf(planLocals, planTargets))
            /\ UNCHANGED <<planOffset, planTargets>>
  /\ UNCHANGED <<planNic, planRoutes, planLocals, maskVars, fpingVars,
                 statusMsg, scanVars, monitorVars, pingVars, cmdVars,
                 routeVars, diagVars, logVars>>

\* ------------------------------------------------------------------------
\* Log buffers (App.tsx 346-353, 496-526). The lines the handlers write are
\* taken apart from the handlers: an append receives any batch of new lines.

MAX_LOG_LINES == 600
MAX_COMMAND_LINES == 1200

MaxLogCalls == 2
MaxBatchLines == 2

\* a line is named by its place among the lines appended since the last
\* clear: the n lines that come after those of history
NewLines(history, n) == [i \in 1..n |-> Len(history) + i]

\* the splice that removes the newest lines
SpliceOverflow_DropNewest(buffer, max) ==
  IF Len(buffer) > max THEN SubSeq(buffer, 1, max) ELSE buffer

\* lines 512-514, 522-524: buffer.splice(0, buffer.length - max)
SpliceOverflow(buffer, max) ==
  IF Len(buffer) > max
    THEN SubSeq(buffer, Len(buffer) - max + 1, Len(buffer))
    ELSE buffer

\* lines 509-514, 519-524: push(...lines), then the splice
AppendLines(buffer, lines, max) ==
  IF lines = <<>> THEN buffer ELSE SpliceOverflow(buffer \o lines, max)

\* the guard of a schedule function that asks for a frame at every call
MaySchedule_Always(rafRef) == TRUE

\* lines 481, 489: a frame is asked for only when none is pending
MaySchedule(rafRef) == ~rafRef

\* lines 480-486: schedulePingLogRender; the callback joins the queue of the
\* next animation frame
schedulePingLogRender ==
  IF MaySchedule(pingRenderRafRef)
    THEN /\ pingRenderRafRef' = TRUE
         /\ rafQueue' = Append(rafQueue, "ping")
    ELSE UNCHANGED <<pingRenderRafRef, rafQueue>>

\* lines 488-494: scheduleCommandLogRender
scheduleCommandLogRender ==
  IF MaySchedule(commandRenderRafRef)
    THEN /\ commandRenderRafRef' = TRUE
         /\ rafQueue' = Append(rafQueue, "command")
    ELSE UNCHANGED <<commandRenderRafRef, rafQueue>>

\* lines 518-526; an empty batch returns at once
appendPingLines ==
  /\ logCalls < MaxLogCalls
  /\ logCalls' = logCalls + 1
  /\ \E n \in 0..MaxBatchLines :
       LET lines == NewLines(pingLogHistory, n)
       IN  /\ pingLogLinesRef' =
                AppendLines(pingLogLinesRef, lines, MAX_LOG_LINES)
           /\ pingLogHistory' = pingLogHistory \o lines
           /\ IF lines = <<>>
                THEN UNCHANGED <<pingRenderRafRef, rafQueue, pingDirty>>
                ELSE schedulePingLogRender /\ pingDirty' = TRUE
  /\ UNCHANGED <<pureVars, statusMsg, scanVars, monitorVars, pingVars,
                 cmdVars, routeVars, diagVars, commandLogLinesRef,
                 commandLogHistory, commandRenderRafRef, pingLogVersion,
                 commandLogVersion, pingOutputText, commandOutputText,
                 commandDirty>>

\* lines 508-516
appendCommandLines ==
  /\ logCalls < MaxLogCalls
  /\ logCalls' = logCalls + 1
  /\ \E n \in 0..MaxBatchLines :
       LET lines == NewLines(commandLogHistory, n)
       IN  /\ commandLogLinesRef' =
                AppendLines(commandLogLinesRef, lines, MAX_COMMAND_LINES)
           /\ commandLogHistory' = commandLogHistory \o lines
           /\ IF lines = <<>>
                THEN UNCHANGED <<commandRenderRafRef, rafQueue, commandDirty>>
                ELSE scheduleCommandLogRender /\ commandDirty' = TRUE
  /\ UNCHANGED <<pureVars, statusMsg, scanVars, monitorVars, pingVars,
                 cmdVars, routeVars, diagVars, pingLogLinesRef,
                 pingLogHistory, pingRenderRafRef, pingLogVersion,
                 commandLogVersion, pingOutputText, commandOutputText,
                 pingDirty>>

\* lines 496-500: nothing happens on an empty log
clearPingOutput ==
  /\ pingLogLinesRef # <<>>
  /\ pingLogLinesRef' = <<>>
  /\ pingLogHistory' = <<>>
  /\ schedulePingLogRender
  /\ pingDirty' = TRUE
  /\ UNCHANGED <<pureVars, statusMsg, scanVars, monitorVars, pingVars,
                 cmdVars, routeVars, diagVars, commandLogLinesRef,
                 commandLogHistory, logCalls, commandRenderRafRef,
                 pingLogVersion, commandLogVersion, pingOutputText,
                 commandOutputText, commandDirty>>

\* lines 502-506
clearCommandOutput ==
  /\ commandLogLinesRef # <<>>
  /\ commandLogLinesRef' = <<>>
  /\ commandLogHistory' = <<>>
  /\ scheduleCommandLogRender
  /\ commandDirty' = TRUE
  /\ UNCHANGED <<pureVars, statusMsg, scanVars, monitorVars, pingVars,
                 cmdVars, routeVars, diagVars, pingLogLinesRef,
                 pingLogHistory, logCalls, pingRenderRafRef, pingLogVersion,
                 commandLogVersion, pingOutputText, commandOutputText,
                 pingDirty>>

\* lines 482-485, 1152-1154: the browser runs the callback of the ping log;
\* the version changes and the render that follows joins the buffer anew
PingLogFrame ==
  /\ rafQueue # <<>>
  /\ Head(rafQueue) = "ping"
  /\ rafQueue' = Tail(rafQueue)
  /\ pingRenderRafRef' = FALSE
  /\ pingLogVersion' = pingLogVersion + 1
  /\ pingOutputText' = pingLogLinesRef
  /\ pingDirty' = FALSE
  /\ UNCHANGED <<pureVars, statusMsg, scanVars, monitorVars, pingVars,
                 cmdVars, routeVars, diagVars, pingLogLinesRef,
                 commandLogLinesRef, pingLogHistory, commandLogHistory,
                 logCalls, commandRenderRafRef, commandLogVersion,
                 commandOutputText, commandDirty>>

\* lines 490-493, 1148-1150: the callback of the command log
CommandLogFrame ==
  /\ rafQueue # <<>>
  /\ Head(rafQueue) = "command"
  /\ rafQueue' = Tail(rafQueue)
  /\ commandRenderRafRef' = FALSE
  /\ commandLogVersion' = commandLogVersion + 1
  /\ commandOutputText' = commandLogLinesRef
  /\ commandDirty' = FALSE
  /\ UNCHANGED <<pureVars, statusMsg, scanVars, monitorVars, pingVars,
                 cmdVars, routeVars, diagVars, pingLogLinesRef,
                 commandLogLinesRef, pingLogHistory, commandLogHistory,
                 logCalls, pingRenderRafRef, pingLogVersion, pingOutputText,
                 pingDirty>>

\* lines 285-286, 348-349: nothing is pending and nothing was painted
RafInit ==
  /\ rafQueue = <<>>
  /\ pingRenderRafRef = FALSE
  /\ commandRenderRafRef = FALSE
  /\ pingLogVersion = 0
  /\ commandLogVersion = 0
  /\ pingDirty = FALSE
  /\ commandDirty = FALSE

\* lines 346-347
LogInit ==
  /\ pingLogLinesRef = <<>>
  /\ commandLogLinesRef = <<>>
  /\ pingLogHistory = <<>>
  /\ commandLogHistory = <<>>
  /\ pingOutputText = <<>>
  /\ commandOutputText = <<>>
  /\ logCalls = 0
  /\ RafInit

\* the logs after so many one-line appends that both are empty or both are
\* one line short of their capacity, all of it painted
LogPreloaded ==
  /\ \E full \in BOOLEAN :
       LET np == IF full THEN MAX_LOG_LINES - 1 ELSE 0
           nc == IF full THEN MAX_COMMAND_LINES - 1 ELSE 0
       IN  /\ pingLogHistory = NewLines(<<>>, np)
           /\ pingLogLinesRef = NewLines(<<>>, np)
           /\ pingOutputText = NewLines(<<>>, np)
           /\ commandLogHistory = NewLines(<<>>, nc)
           /\ commandLogLinesRef = NewLines(<<>>, nc)
           /\ commandOutputText = NewLines(<<>>, nc)
  /\ logCalls = 0
  /\ RafInit

\* ------------------------------------------------------------------------
\* Specifications
\* ------------------------------------------------------------------------

InitWithoutLogs ==
  /\ statusMsg = Msg("loadingData")
  /\ ScanInit
  /\ MonitorInit
  /\ PingInit
  /\ CmdInit
  /\ RouteInit

InitApp == InitWithoutLogs /\ LogInit

\* the netmask functions on their inputs
InitMask == MaskInputs /\ FpingIdle /\ PlanIdle /\ PrefixIdle /\ DiagDefaults /\ InitApp
NextMask == CallMaskToPrefix
SpecMask == InitMask /\ [][NextMask]_vars

\* the application after mount
Init == MaskIdle /\ FpingIdle /\ PlanIdle /\ PrefixIdle /\ DiagDefaults /\ InitApp

\* prefixToMaskInt, intToIpv4 and maskToPrefix in a row
InitPrefix == MaskIdle /\ FpingIdle /\ PlanIdle /\ PrefixInputs /\ DiagDefaults /\ InitApp
NextPrefix ==
  \/ CallPrefixToMaskInt
  \/ CallIntToIpv4
  \/ CallMaskToPrefix
SpecPrefix == InitPrefix /\ [][NextPrefix]_vars

NextScan ==
  \/ handleSelectNic
  \/ handleOpenIpScanModal
  \/ handleStartIpScan
  \/ handleForceStopIpScan
  \/ FpingScanResolves
  \/ FpingScanRejects
  \/ Render

NextMonitor ==
  \/ InternetTick
  \/ InternetDone
  \/ LatencyTick
  \/ LatencyDone

NextPing ==
  \/ handleStartPing
  \/ handleStopPing
  \/ setPingMode
  \/ PingIntervalTick
  \/ PingProbeDone

NextCmd ==
  \/ setPingTarget
  \/ handleTracertFromTarget
  \/ ToolBtnClick
  \/ RunNetworkCommandReturns
  \/ LoadDataDone

NextGuard ==
  \/ InvokeRunNetworkCommand
  \/ RunNetworkCommandReturns

\* the IP scan alone
SpecScan == Init /\ [][NextScan]_vars

\* the backend settles every fpingScan call: each probe has a timeout
SpecScanLive ==
  /\ SpecScan
  /\ WF_vars(FpingScanResolves \/ FpingScanRejects)

\* the IP scan beside the two monitors
SpecMonitor == Init /\ [][NextScan \/ NextMonitor]_vars

\* the IP scan beside the continuous ping
SpecPing == Init /\ [][NextScan \/ NextPing]_vars

\* the commands of the user interface
SpecCmd == Init /\ [][NextCmd]_vars

\* run_network_command under callers of any kind
SpecGuard == Init /\ [][NextGuard]_vars

\* the route form, the WAN and FLUSH buttons and the confirmation dialog
NextRoute ==
  \/ handleSelectNic
  \/ setFormDest
  \/ handleAddRoute
  \/ handleDeleteRoute
  \/ WanBtnClick
  \/ FlushBtnClick
  \/ onConfirm
  \/ onCancelConfirm
  \/ RouteCallReturns
  \/ LoadDataDone

SpecRoute == Init /\ [][NextRoute]_vars

\* the fix tools, the two confirmed repairs and the confirmation dialog
NextTools ==
  \/ ToolBtnClick
  \/ handleResetWinHttpProxy
  \/ handleRestartAdapters
  \/ onConfirm
  \/ onCancelConfirm
  \/ RunNetworkCommandReturns
  \/ LoadDataDone

SpecTools == Init /\ [][NextTools]_vars

\* the nslookup and port tests on the texts of their fields
InitDiag == MaskIdle /\ FpingIdle /\ PlanIdle /\ PrefixIdle /\ DiagInputs /\ InitApp

NextDiag ==
  \/ handleNslookupTest
  \/ handlePortConnectivityTest
  \/ RunNetworkCommandReturns

SpecDiag == InitDiag /\ [][NextDiag]_vars

\* the batch probe on its inputs
InitFping ==
  /\ MaskIdle /\ PrefixIdle /\ FpingInputs /\ PlanIdle /\ DiagDefaults
  /\ InitApp

NextFping == CallFpingScan

SpecFping == InitFping /\ [][NextFping]_vars

\* the log buffers under appends and clears
InitLog ==
  /\ MaskIdle /\ PrefixIdle /\ FpingIdle /\ PlanIdle /\ DiagDefaults
  /\ InitWithoutLogs /\ LogPreloaded

NextLog ==
  \/ appendPingLines
  \/ appendCommandLines
  \/ clearPingOutput
  \/ clearCommandOutput
  \/ PingLogFrame
  \/ CommandLogFrame

SpecLog == InitLog /\ [][NextLog]_vars

\* the browser runs the callbacks it was asked to run
SpecLogLive ==
  /\ SpecLog
  /\ WF_vars(PingLogFrame)
  /\ WF_vars(CommandLogFrame)

\* buildIpScanPlan on its inputs
InitPlan ==
  /\ MaskIdle /\ PrefixIdle /\ FpingIdle /\ PlanInputs /\ DiagDefaults
  /\ InitApp

NextPlan == buildIpScanPlanEnter \/ TargetLoopStep

SpecPlan == InitPlan /\ [][NextPlan]_vars

\* ------------------------------------------------------------------------
\* C1, C2
\* ------------------------------------------------------------------------

\* the requests made so far that the model still remembers: those in
\* flight and the last one answered
KnownCalls ==
  {cmdCalls[i] : i \in 1..Len(cmdCalls)} \cup
  (IF cmdDone = Null THEN {} ELSE {cmdDone[1]})

\* C1: whatever calls came before and whatever follows the leading token,
\* a command line handed to runNetworkCommand whose leading program name
\* does not match an allow-listed prefix is answered without success, and
\* nothing is executed for it.
C1_AllowListGuard ==
  (cmdDone # Null /\ ~MatchesAllowList(cmdDone[1].asked)) =>
    /\ ~cmdDone[1].success
    /\ cmdDone[1].executed = Null

\* a command line that names an allow-listed program only after a
\* program that is not allow-listed has been refused
C1_Witness ==
  /\ cmdDone # Null
  /\ cmdDone[1].asked =
       <<"c", "a", "l", "c", " ", "i", "p", "c", "o", "n", "f", "i", "g">>
  /\ ~cmdDone[1].success
  /\ cmdDone[1].executed = Null

\* C2: a command line the user interface passes to runNetworkCommand holds
\* a chaining metacharacter (semicolon, double ampersand, backtick) only
\* when it is one of the hard-coded templates; none comes from the text of
\* a field.
C2_NoUserChaining ==
  \A call \in KnownCalls :
    (call.origin # "caller" /\ HasChaining(call.asked)) =>
      call.asked \in {b.cmd : b \in ToolButtons}


\* ------------------------------------------------------------------------
\* C3 - C9
\* ------------------------------------------------------------------------

RECURSIVE Flatten(_)
Flatten(ss) == IF ss = <<>> THEN <<>> ELSE Head(ss) \o Flatten(Tail(ss))

IsPrefix(s, t) == Len(s) <= Len(t) /\ SubSeq(t, 1, Len(s)) = s

\* C3: the targets of a scan are cut into consecutive batches of at most
\* IP_SCAN_BATCH_SIZE targets, every target in exactly one batch; a batch
\* is handed to fpingScan only after the batch before it has resolved, so at
\* most one batch is in flight.
C3_SequentialBatches ==
  /\ Len(scanCalls) <= 1
  /\ \A k \in 1..Len(dispatchLog) :
       Len(dispatchLog[k]) >= 1 /\ Len(dispatchLog[k]) <= IP_SCAN_BATCH_SIZE
  /\ \A i \in 1..Len(scanCalls) :
       /\ IsPrefix(Flatten(dispatchLog), scanCalls[i].targets)
       /\ Len(dispatchLog) = Len(batchLog) + 1
       /\ dispatchLog[Len(dispatchLog)] = scanCalls[i].batchTargets
  /\ scanCalls = <<>> => Len(dispatchLog) \in {Len(batchLog), Len(batchLog) + 1}
  /\ lastScan.outcome = "done" =>
       Flatten(dispatchLog) = PlanTargets(lastScan.total)

\* a scan of MaxTargets targets is done, in three batches
C3_Witness ==
  /\ lastScan.outcome = "done"
  /\ lastScan.total = MaxTargets
  /\ Len(dispatchLog) = 3
  /\ Len(dispatchLog[3]) < IP_SCAN_BATCH_SIZE

\* C4: a stop request leaves the batch in flight alone; once the flag is
\* set no batch is dispatched any more, and when the batch in flight
\* resolves its results are still published and counted.
C4_CooperativeStop ==
  [][ /\ (~ipScanStopRequestedRef /\ ipScanStopRequestedRef') =>
           /\ scanCalls' = scanCalls
           /\ dispatchLog' = dispatchLog
           /\ ipScanResults' = ipScanResults
      /\ (ipScanStopRequestedRef /\ scanCalls # <<>>) =>
           /\ dispatchLog' = dispatchLog
           /\ scanCalls' \in {scanCalls, <<>>}
           /\ batchLog' # batchLog =>
                /\ scanCalls' = <<>>
                /\ ipScanResults' =
                     scanCalls[1].collected \o batchLog'[Len(batchLog')]
                /\ lastScan'.processed =
                     scanCalls[1].processed + Len(scanCalls[1].batchTargets)
    ]_vars

\* a scan was stopped after its first batch, whose results are published
C4_Witness ==
  /\ lastScan.outcome = "stopped"
  /\ lastScan.stopAtExit
  /\ lastScan.processed = IP_SCAN_BATCH_SIZE
  /\ Len(ipScanResults) = IP_SCAN_BATCH_SIZE
  /\ Len(dispatchLog) = 1

\* C5 as claimed: a scan invoked with the stop flag already set has no
\* batch in flight and ends with nothing processed.
C5_StopBeforeStart ==
  /\ \A i \in 1..Len(scanCalls) : ~scanCalls[i].stopAtEntry
  /\ (lastScan.outcome # "none" /\ lastScan.stopAtEntry) =>
       lastScan.processed = 0

\* C5 as amended: runIpScan clears the stop flag when it is invoked, so a
\* flag set before has no effect: the first batch is always dispatched, and
\* a scan that ends without a rejected call has processed at least
\* min(IP_SCAN_BATCH_SIZE, total) >= 1 targets.
C5_FlagClearedAtEntry ==
  /\ \A i \in 1..Len(scanCalls) :
       /\ dispatchLog # <<>>
       /\ dispatchLog[1] = BatchTargets(scanCalls[i].targets, 0)
  /\ lastScan.outcome \in {"done", "stopped"} =>
       /\ lastScan.processed >= Min(IP_SCAN_BATCH_SIZE, lastScan.total)
       /\ lastScan.processed >= 1

\* a scan invoked with the stop flag set has run to its end
C5_Witness ==
  /\ lastScan.stopAtEntry
  /\ lastScan.outcome = "done"
  /\ lastScan.processed = MaxTargets

\* C6: while a scan runs, processed and reachable never decrease from one
\* batch to the next, and reachable <= processed <= total throughout.
C6_MonotoneCounters ==
  /\ [](/\ \A i \in 1..Len(scanCalls) :
             /\ scanCalls[i].reachable <= scanCalls[i].processed
             /\ scanCalls[i].processed <= Len(scanCalls[i].targets)
        /\ lastScan.reachable <= lastScan.processed
        /\ lastScan.processed <= lastScan.total)
  /\ [][ /\ (scanCalls # <<>> /\ scanCalls' # <<>>) =>
              /\ scanCalls'[1].processed >= scanCalls[1].processed
              /\ scanCalls'[1].reachable >= scanCalls[1].reachable
         /\ (scanCalls # <<>> /\ scanCalls' = <<>>) =>
              /\ lastScan'.processed >= scanCalls[1].processed
              /\ lastScan'.reachable >= scanCalls[1].reachable
       ]_vars

\* two batches are in, some hosts of them up and some down
C6_Witness ==
  /\ Len(scanCalls) = 1
  /\ scanCalls[1].processed = 2 * IP_SCAN_BATCH_SIZE
  /\ scanCalls[1].reachable > 1
  /\ scanCalls[1].reachable < scanCalls[1].processed

\* C7: when a batch completes the published results are the host lists of
\* all completed batches, in batch order; during one scan the published
\* list only grows, by appending.
C7_ProgressiveResults ==
  [][ /\ (batchLog' # batchLog /\ batchLog' # <<>>) =>
           ipScanResults' = Flatten(batchLog')
      /\ scanCalls # <<>> => IsPrefix(ipScanResults, ipScanResults')
    ]_vars

\* C8: while a batch of a scan is in flight, each monitor can issue its
\* request and can apply the result of a request in flight.
C8_MonitorsNotBlocked ==
  scanCalls # <<>> =>
    /\ inetPending < MaxPending =>
         ENABLED (InternetTick /\ inetPending' = inetPending + 1)
    /\ latencyPending < MaxPending =>
         ENABLED (LatencyTick /\ latencyPending' = latencyPending + 1)
    /\ inetPending > 0 => ENABLED InternetDone
    /\ latencyPending > 0 => ENABLED LatencyDone

\* a batch is in flight after an earlier one; both monitors have applied a
\* result and have a request in flight
C8_Witness ==
  /\ scanCalls # <<>>
  /\ batchLog # <<>>
  /\ isOnline = "online"
  /\ currentLatency # 0
  /\ inetPending > 0
  /\ latencyPending > 0

\* C9: at most one runIpScan loop is alive and at most one probe of the
\* continuous ping is in flight; a start of a scan while one is running and
\* a tick while a probe is in flight change nothing.
C9_OneRequestPerArea ==
  /\ [](Len(scanCalls) <= 1 /\ Len(pingCalls) <= 1)
  /\ [][ /\ (handleStartIpScan /\ scanCalls # <<>>) => UNCHANGED vars
         /\ (PingIntervalTick /\ pingCalls # <<>>) => UNCHANGED vars
       ]_vars

\* a scan batch and a ping probe are in flight while the interval runs
C9_Witness ==
  /\ Len(scanCalls) = 1
  /\ Len(pingCalls) = 1
  /\ pingBusyRef
  /\ pingLoopRef
  /\ renderedIpScanRunning

\* ------------------------------------------------------------------------
\* C10
\* ------------------------------------------------------------------------

\* Bit k (0 = most significant) of the 32-bit pattern of four octets.
PatternBit(o, k) == (o[(k \div 8) + 1] \div Pow2(7 - (k % 8))) % 2

NonContiguous(o) ==
  \E i \in 0..30 : \E j \in (i + 1)..31 :
    PatternBit(o, i) = 0 /\ PatternBit(o, j) = 1

LeadingOnes(o) ==
  Cardinality({k \in 0..31 : \A i \in 0..k : PatternBit(o, i) = 1})

\* C10: maskToPrefix returns null for every dotted mask whose 32-bit
\* pattern has a zero bit followed by a one bit, and for every contiguous
\* mask returns the count of its leading one bits.
C10_MaskToPrefix ==
  (maskCalled /\ maskOctets # <<>>) =>
    IF NonContiguous(maskOctets)
      THEN maskRet = Null
      ELSE maskRet = Some(LeadingOnes(maskOctets))

\* maskToPrefix was called on 255.0.255.0 and returned null.
C10_Witness ==
  /\ maskCalled
  /\ maskOctets = <<255, 0, 255, 0>>
  /\ maskRet = Null

\* ------------------------------------------------------------------------
\* C11, C12
\* ------------------------------------------------------------------------

\* C11: for every integer n from 0 to 32, maskToPrefix called on the
\* dotted form intToIpv4 writes of prefixToMaskInt(n) returns n.
C11_RoundTrip ==
  (prefixStage = "dotted" /\ maskCalled /\ prefixArg \in 0..32) =>
    maskRet = Some(prefixArg)

\* the round trip of 23 went through 255.255.254.0
C11_Witness ==
  /\ prefixStage = "dotted"
  /\ maskCalled
  /\ prefixArg = 23
  /\ maskOctets = <<255, 255, 254, 0>>
  /\ maskRet = Some(23)

\* the unsigned 32-bit number with n leading one bits and 32 - n zero
\* bits, 0 < n < 32: 2^32 - 2^(32 - n)
LeadingOnesMask(n) ==
  IF n <= 16
    THEN [hi |-> Half - Pow2(16 - n), lo |-> 0]
    ELSE [hi |-> Half - 1, lo |-> Half - Pow2(32 - n)]

\* C12: prefixToMaskInt returns 0 for n <= 0, 0xFFFFFFFF for n >= 32, and
\* in between the number with exactly n leading one bits followed by zero
\* bits; the result is never negative and below 2^32.
C12_PrefixToMask ==
  prefixStage # "none" =>
    /\ prefixMask.hi \in 0..(Half - 1)
    /\ prefixMask.lo \in 0..(Half - 1)
    /\ prefixArg <= 0 => prefixMask = Num(0)
    /\ prefixArg >= 32 => prefixMask = AllOnes
    /\ (prefixArg > 0 /\ prefixArg < 32) =>
         prefixMask = LeadingOnesMask(prefixArg)

\* prefixToMaskInt(1) is 0x80000000, positive
C12_Witness ==
  /\ prefixStage = "mask"
  /\ prefixArg = 1
  /\ prefixMask = [hi |-> 32768, lo |-> 0]


\* ------------------------------------------------------------------------
\* C13
\* ------------------------------------------------------------------------

\* C13: when a command run through executeNetCmd returns, the status is
\* the message that Administrator privileges are required whenever the
\* output says so, whatever the success flag; otherwise it is the success
\* message exactly when the flag is true and the failure message exactly
\* when it is false.
C13_ElevationStatus ==
  [][ ( /\ Len(cmdCalls') < Len(cmdCalls)
        /\ cmdDone'[1].origin = "executeNetCmd"
        /\ ~cmdDone'[1].threw ) =>
          statusMsg' =
            IF cmdDone'[1].elevation THEN Msg("cmdElevation")
            ELSE IF cmdDone'[1].success THEN Msg("cmdSuccess")
            ELSE Msg("cmdFailed")
    ]_vars

\* C14: when the result of a route operation (add, delete, flush, set
\* default gateway) carries the elevation notice, the status message
\* reported for it is none of the messages that the same operations give for
\* a success or for a failure of another kind.
PlainRouteStatuses == {RouteStatus(t) : t \in BOOLEAN}

C14_RouteElevationStatus ==
  [][ ( /\ Len(routeCalls') < Len(routeCalls)
        /\ routeDone'[1].elevation ) =>
          statusMsg' \notin PlainRouteStatuses
    ]_vars

\* a request for op is handed to the backend in this step
NewRouteCall(op) ==
  /\ Len(routeCalls') > Len(routeCalls)
  /\ routeCalls'[Len(routeCalls')].op = op

\* the destructive route operations, each with the callback and the title
\* of its dialog
GatedOps ==
  { [op |-> "flushRoutes", action |-> "executeFlush",
     title |-> "Clear All Routes"],
    [op |-> "setDefaultGateway", action |-> "executeSetInternet",
     title |-> "Set Default Gateway"] }

\* C15: flushRoutes and setDefaultGateway are requested only by Confirm on
\* an open dialog that was opened for that action, and the step consumes the
\* pending action and closes the dialog, so a dialog runs its action at most
\* once; whenever the dialog closes, by Confirm or by Cancel, the pending
\* action is discarded, and there is a pending action only while a
\* dialog is open.
C15_ConfirmGate ==
  [][ /\ \A g \in GatedOps :
           NewRouteCall(g.op) =>
             /\ confirmOpen
             /\ confirmActionRef # Null
             /\ confirmActionRef[1].name = g.action
             /\ confirmTitle = g.title
             /\ ~confirmOpen'
             /\ confirmActionRef' = Null
      /\ (confirmOpen /\ ~confirmOpen') => confirmActionRef' = Null
      /\ confirmActionRef' # Null => confirmOpen'
    ]_vars

C15_Witness ==
  /\ routeCalls # <<>>
  /\ routeCalls[1].op = "setDefaultGateway"
  /\ confirmTitle = "Set Default Gateway"
  /\ ~confirmOpen
  /\ confirmActionRef = Null

\* the commands of the six fix tools
FixToolCommands ==
  {FlushDnsCommand, RenewIpCommand, ResetTcpIpCommand, ResetWinsockCommand,
   ClearArpCommand, ResetFirewallCommand}

\* C16: a fix tool (Flush DNS, Renew IP, Reset TCP/IP, Reset Winsock, Clear
\* ARP, Reset Firewall) hands its command to the backend only in a step
\* that is Confirm on the open confirmation dialog.
C16_FixToolsConfirmed ==
  [][ ( /\ Len(cmdCalls') > Len(cmdCalls)
        /\ cmdCalls'[Len(cmdCalls')].asked \in FixToolCommands ) =>
          /\ confirmOpen
          /\ confirmActionRef # Null
          /\ ~confirmOpen'
    ]_vars

\* the decimal numerals of the integers 1..65535
IsPortNumeral(s) ==
  /\ s # <<>>
  /\ \A k \in 1..Len(s) : s[k] \in DigitChars
  /\ s[1] # "0"
  /\ Len(s) <= 5
  /\ DigitsValue(s, 0) \in 1..65535

IsToken(s, chars) == s # <<>> /\ \A k \in 1..Len(s) : s[k] \in chars

\* C17: the command line the nslookup test hands to the backend is the
\* template filled with a non-empty host of letters, digits, "." and "-"
\* and a non-empty DNS server of the same characters and ":"; the command
\* line of the port test is its template filled with such a host and the
\* numeral of an integer in 1..65535; the fields are left holding the
\* values that were interpolated.
C17_SanitizedCommands ==
  [][ Len(cmdCalls') > Len(cmdCalls) =>
        LET asked == cmdCalls'[Len(cmdCalls')].asked
        IN  /\ IsToken(diagHost', HostTokenChars)
            /\ \/ /\ IsToken(diagDnsServer', DnsTokenChars)
                  /\ asked = NslookupCommand(diagHost', diagDnsServer')
               \/ /\ IsPortNumeral(diagPort')
                  /\ asked =
                       PortTestPrefix \o diagHost' \o PortTestPortOption
                         \o diagPort'
    ]_vars

\* the port test is in flight with port 80, which no text of PortInputs
\* spells: the field held "80abc", " 80" or "+80"
C17_Witness ==
  /\ cmdCalls # <<>>
  /\ cmdCalls[1].asked = PortTestCommand(DefaultDiagHost, 80)
  /\ diagPort = <<"8", "0">>

\* the entries of a result that succeeded
Succeeded(result) ==
  {i \in 1..Len(result.hosts) : result.hosts[i].success}

\* C18: in every batch probe result received is the number of per-host
\* entries that succeeded, received <= sent, and lossPercent is the number
\* 100 * (sent - received) / sent; for no targets the result is sent = 0,
\* received = 0 and lossPercent = 0, not the outcome of a division by zero.
C18_BatchNumbers ==
  fpResult # Null =>
    LET r == fpResult[1]
    IN  /\ r.sent = Len(fpTargets)
        /\ r.received = Cardinality(Succeeded(r))
        /\ r.received <= r.sent
        /\ r.loss_percent # NaN
        /\ r.loss_percent[1].num * r.sent
             = 100 * (r.sent - r.received) * r.loss_percent[1].den
        /\ fpTargets = <<>> =>
             /\ r.sent = 0
             /\ r.received = 0
             /\ r.loss_percent[1].num = 0

\* two of three targets answered
C18_Witness ==
  /\ fpResult # Null
  /\ fpResult[1].sent = 3
  /\ fpResult[1].received = 2
  /\ fpResult[1].loss_percent = Ratio(100, 3)

\* C19: a request to set the default gateway that reaches the backend
\* attempts the add of the new default route after the delete of the old
\* one, whether the delete succeeded or failed; where the route tool obeys,
\* the request succeeds and the system's default route is the new gateway,
\* also when there was no default route to delete.
C19_DeleteThenAdd ==
  [][ ( /\ Len(routeCalls') < Len(routeCalls)
        /\ routeDone'[1].op = "setDefaultGateway"
        /\ ~routeDone'[1].threw ) =>
          LET done == routeDone'[1]
          IN  /\ done.addAttempted
              /\ done.deleteOk => done.hadDefault
              /\ done.env = "elevated" =>
                   /\ done.success
                   /\ defaultRoute' = Some(done.gateway)
    ]_vars

\* the default gateway was set when no default route existed
C19_Witness ==
  /\ routeDone # Null
  /\ routeDone[1].op = "setDefaultGateway"
  /\ ~routeDone[1].hadDefault
  /\ ~routeDone[1].deleteOk
  /\ routeDone[1].success
  /\ defaultRoute = Some(routeDone[1].gateway)

\* the last max lines of history, all of them when there are fewer
LastLines(history, max) ==
  IF Len(history) > max
    THEN SubSeq(history, Len(history) - max + 1, Len(history))
    ELSE history

\* C20: the ping log holds at most 600 lines and the command log at most
\* 1200, and each is, in order, the most recent lines appended since its
\* last clear.
C20_RingBuffers ==
  /\ Len(pingLogLinesRef) <= MAX_LOG_LINES
  /\ pingLogLinesRef = LastLines(pingLogHistory, MAX_LOG_LINES)
  /\ Len(commandLogLinesRef) <= MAX_COMMAND_LINES
  /\ commandLogLinesRef = LastLines(commandLogHistory, MAX_COMMAND_LINES)

\* both logs have dropped their oldest lines
C20_Witness ==
  /\ Len(pingLogHistory) > MAX_LOG_LINES
  /\ Len(pingLogLinesRef) = MAX_LOG_LINES
  /\ pingLogLinesRef[1] = Len(pingLogHistory) - MAX_LOG_LINES + 1
  /\ Len(commandLogHistory) > MAX_COMMAND_LINES
  /\ Len(commandLogLinesRef) = MAX_COMMAND_LINES

\* the callbacks of a log that wait in the queue
PendingFrames(log) == {k \in 1..Len(rafQueue) : rafQueue[k] = log}

\* C21: for each log at most one frame is pending; a log that changed after
\* its last paint has a frame pending; the appends and clears between two
\* frames leave the version alone and the frame raises it by exactly one,
\* painting the buffer as it is then; and a log that changed is eventually
\* painted after the change.
C21_BatchedRepaints ==
  /\ [](/\ Cardinality(PendingFrames("ping")) <= 1
        /\ Cardinality(PendingFrames("command")) <= 1
        /\ pingDirty => PendingFrames("ping") # {}
        /\ commandDirty => PendingFrames("command") # {})
  /\ [][ /\ pingLogVersion' =
             IF Len(rafQueue') < Len(rafQueue) /\ Head(rafQueue) = "ping"
               THEN pingLogVersion + 1 ELSE pingLogVersion
         /\ commandLogVersion' =
             IF Len(rafQueue') < Len(rafQueue) /\ Head(rafQueue) = "command"
               THEN commandLogVersion + 1 ELSE commandLogVersion
         /\ pingLogVersion' # pingLogVersion =>
              pingOutputText' = pingLogLinesRef'
         /\ commandLogVersion' # commandLogVersion =>
              commandOutputText' = commandLogLinesRef'
       ]_vars
  /\ pingDirty ~> (~pingDirty /\ pingOutputText = pingLogLinesRef)
  /\ commandDirty ~>
       (~commandDirty /\ commandOutputText = commandLogLinesRef)

\* two appends to the ping log, neither of them empty, were painted by one
\* frame
C21_Witness ==
  /\ pingLogVersion = 1
  /\ logCalls = 2
  /\ Len(pingLogHistory) = MaxBatchLines + 1
  /\ pingOutputText = pingLogLinesRef
  /\ ~pingDirty
  /\ rafQueue = <<>>

\* ------------------------------------------------------------------------
\* The scan plan

PlanReturned == planPc = "done" /\ planRet # Null

\* x < y on numbers given as halves
NumLess(x, y) == ~NumLeq(y, x)

\* the network address, the prefix length and the broadcast address that
\* the label of a plan names
SubnetNetwork(plan) == ipv4ToInt(parseIpv4(Split(plan.subnetLabel, "/")[1]))

SubnetPrefix(plan) == ParseInt(Split(plan.subnetLabel, "/")[2])[1]

SubnetBroadcast(plan) ==
  NumAdd(SubnetNetwork(plan), Num(Pow2(32 - SubnetPrefix(plan)) - 1))

\* an address strictly between the network and the broadcast address
IsHostOf(plan, addr) ==
  NumLess(SubnetNetwork(plan), addr) /\ NumLess(addr, SubnetBroadcast(plan))

NicAddress == ipv4ToInt(parseIpv4(planNic.ip))

\* the hosts of the subnet other than the interface's own address
ScannableHosts(plan) ==
  Pow2(32 - SubnetPrefix(plan)) - 2
    - (IF IsHostOf(plan, NicAddress) THEN 1 ELSE 0)

TargetInt(plan, i) == ipv4ToInt(parseIpv4(plan.targets[i]))

\* C22: truncated is true exactly when a scannable host of the subnet is
\* missing from targets, whatever the address of the interface.
C22_TruncatedExact ==
  PlanReturned =>
    (planRet[1].truncated <=>
       Len(planRet[1].targets) < ScannableHosts(planRet[1]))

\* C23: a returned plan has at most 512 targets, ascending and so distinct,
\* each strictly between the network and the broadcast address of the
\* plan's subnet, none of them the interface's own address.
C23_TargetsOfPlan ==
  PlanReturned =>
    LET plan == planRet[1]
    IN  /\ Len(plan.targets) <= 512
        /\ \A i \in 1..Len(plan.targets) :
             /\ IsHostOf(plan, TargetInt(plan, i))
             /\ ~NumEq(TargetInt(plan, i), NicAddress)
        /\ \A i \in 1..(Len(plan.targets) - 1) :
             NumLess(TargetInt(plan, i), TargetInt(plan, i + 1))

\* a plan cut at 512 targets for an interface inside the scanned subnet
C23_Witness ==
  /\ PlanReturned
  /\ Len(planRet[1].targets) = 512
  /\ planRet[1].truncated
  /\ IsHostOf(planRet[1], NicAddress)

\* a route on the interface with gateway 0.0.0.0, a destination other than
\* 0.0.0.0 and a netmask other than 255.255.255.255; with parsed, also a
\* destination and a netmask that are IPv4 addresses
Qualifies(route, parsed) ==
  /\ route.interface_index = planNic.index
  /\ route.gateway = ZeroAddress
  /\ route.destination # ZeroAddress
  /\ route.netmask # HostMask
  /\ parsed =>
       parseIpv4(route.destination) # Null /\ parseIpv4(route.netmask) # Null

FirstQualifying(parsed) ==
  IF \E i \in 1..Len(planRoutes) : Qualifies(planRoutes[i], parsed)
    THEN Some(planRoutes[CHOOSE i \in 1..Len(planRoutes) :
                           /\ Qualifies(planRoutes[i], parsed)
                           /\ \A j \in 1..(i - 1) :
                                ~Qualifies(planRoutes[j], parsed)])
    ELSE Null

\* a contiguous netmask of prefix length 16..30
PrefixInRange(route) ==
  /\ maskToPrefix(route.netmask) # Null
  /\ maskToPrefix(route.netmask)[1] \in 16..30

\* the label of the /24 network that holds the interface's address
Fallback24Label ==
  LET o == parseIpv4(planNic.ip)
  IN  NatToStr(o[1]) \o <<".">> \o NatToStr(o[2]) \o <<".">>
        \o NatToStr(o[3]) \o <<".", "0", "/", "2", "4">>

SourceOfPlan(parsed) ==
  planPc = "done" =>
    /\ planRet = Null => parseIpv4(planNic.ip) = Null
    /\ planRet # Null =>
         /\ planRet[1].source \in {"route", "fallback"}
         /\ planRet[1].source = "route" <=>
              /\ FirstQualifying(parsed) # Null
              /\ PrefixInRange(FirstQualifying(parsed)[1])
         /\ planRet[1].source = "route" =>
              SubnetPrefix(planRet[1]) =
                maskToPrefix(FirstQualifying(parsed)[1].netmask)[1]
         /\ planRet[1].source = "fallback" =>
              planRet[1].subnetLabel = Fallback24Label

\* C24 as stated: the subnet comes from the routing table exactly when the
\* first route on the interface with gateway 0.0.0.0, destination other
\* than 0.0.0.0 and netmask other than 255.255.255.255 has a contiguous
\* netmask of prefix length 16..30; otherwise the plan is the /24 of the
\* interface's address; no plan only for an invalid interface address.
C24_FirstConnectedRoute == SourceOfPlan(FALSE)

\* C24, amended: the same, the first route being the first one that also
\* has a destination and a netmask that parse as IPv4 addresses.
C24_FirstParsableRoute == SourceOfPlan(TRUE)

\* the subnet came from the second route, the first one having a netmask
\* that is no IPv4 address
C24_Witness ==
  /\ PlanReturned
  /\ planRet[1].source = "route"
  /\ Len(planRoutes) = 2
  /\ planRoutes[1] = RouteBadNetmask

\* ------------------------------------------------------------------------
\* The end of a scan

\* C25: every started scan ends; the step that ends it, whether the last
\* batch resolved, a stop was requested or a call rejected, leaves the
\* running flag, the stop-pending flag and the stop-request flag false; a
\* rejection dispatches no batch, and batches are dispatched for a scan in
\* flight only; a scan starts with the stop request cleared and its first
\* batch dispatched, whatever request was left over.
C25_ScanEnds ==
  /\ [][ /\ Len(scanCalls') < Len(scanCalls) =>
              /\ ~ipScanRunning'
              /\ ~ipScanStopPending'
              /\ ~ipScanStopRequestedRef'
              /\ lastScan'.outcome \in {"done", "stopped", "error"}
              /\ lastScan'.outcome = "error" => dispatchLog' = dispatchLog
         /\ dispatchLog' # dispatchLog =>
              /\ scanCalls' # <<>>
              /\ dispatchLog'[Len(dispatchLog')] = scanCalls'[1].batchTargets
         /\ Len(scanCalls') > Len(scanCalls) =>
              /\ ipScanRunning'
              /\ ~ipScanStopRequestedRef'
              /\ ~ipScanStopPending'
              /\ dispatchLog' = <<scanCalls'[1].batchTargets>>
         /\ (scanCalls # <<>> /\ ~ipScanStopRequestedRef
               /\ lastScan'.outcome = "stopped") =>
              lastScan = lastScan'
       ]_vars
  /\ [](scanCalls = <<>> => ~ipScanRunning)
  /\ (scanCalls # <<>>) ~> (scanCalls = <<>> /\ ~ipScanRunning)

\* a scan started over a left-over stop request ran its first batch and
\* ended on a rejected call, with the three flags false
C25_Witness ==
  /\ lastScan.outcome = "error"
  /\ lastScan.stopAtEntry
  /\ lastScan.processed = IP_SCAN_BATCH_SIZE
  /\ scanCalls = <<>>
  /\ ~ipScanRunning
  /\ ~ipScanStopPending
  /\ ~ipScanStopRequestedRef

\* C26: a scan whose loop exits without error reports stopped exactly when
\* a stop was requested and fewer than all targets were processed, and done
\* otherwise; a scan reported done has processed all its targets and shows
\* 100%, also when the stop was requested during its last batch.
C26_StoppedOrDone ==
  /\ [](lastScan.outcome \in {"done", "stopped"} =>
          /\ lastScan.outcome = "stopped" <=>
               (lastScan.stopAtExit /\ lastScan.processed < lastScan.total)
          /\ lastScan.outcome = "done" =>
               lastScan.processed = lastScan.total)
  /\ [][ (lastScan' # lastScan /\ lastScan'.outcome = "stopped") =>
            statusMsg' =
              Msg2("scanStopped", lastScan'.processed, lastScan'.total)
       ]_vars
  /\ [][ (lastScan' # lastScan /\ lastScan'.outcome = "done") =>
            /\ statusMsg' =
                 Msg2("scanDone", lastScan'.reachable, lastScan'.total)
            /\ ipScanProgressPercent' = 100
            /\ Len(ipScanResults') = lastScan'.total
       ]_vars

\* a stop was requested during the last batch of a scan of three batches,
\* and the scan is reported done at 100%
C26_Witness ==
  /\ lastScan.outcome = "done"
  /\ lastScan.stopAtExit
  /\ ~lastScan.stopAtEntry
  /\ lastScan.processed = MaxTargets
  /\ Len(dispatchLog) = 3
  /\ ipScanProgressPercent = 100
  /\ statusMsg = Msg2("scanDone", lastScan.reachable, lastScan.total)

\* ------------------------------------------------------------------------
\* The continuous ping after Stop

\* C27: once the continuous ping is stopped no probe is started, and no
\* probe result line follows the Stopped marker in the ping log, also when
\* a probe was in flight at the stop.
C27_NothingAfterStop ==
  /\ [](pingLogAfterStop # "result")
  /\ [][ (pingLogAfterStop # "none" /\ pingLogAfterStop' # "none") =>
           Len(pingCalls') <= Len(pingCalls)
       ]_vars

\* ------------------------------------------------------------------------
\* The status of a route operation

\* lines 432, 447, 462, 473: the messages of success of the four operations
RouteSuccessStatuses ==
  {Msg("routeAdded"), Msg("routeDeleted"), Msg("defaultGatewaySet"),
   Msg("routesFlushed")}

\* C28: when the request of add route, delete route, set default gateway or
\* flush routes has been answered, the status shown is the operation's
\* message of success only for a result with success = true, and it is a
\* failure or error status for a result with success = false and for a
\* rejected request.
C28_ResultDecidesStatus ==
  [][ Len(routeCalls') < Len(routeCalls) =>
        /\ statusMsg' \in RouteSuccessStatuses =>
             (routeDone'[1].success /\ ~routeDone'[1].threw)
        /\ (~routeDone'[1].success \/ routeDone'[1].threw) =>
             statusMsg' \in {Msg("error"), Msg("failed")}
    ]_vars

====
